---- MODULE Spec2Model ----
(***************************************************************************)
(* TrueOrigin backend canister: print-version-bound product codes,         *)
(* verification, rate limiting and the first-verification reward ledger.   *)
(*                                                                         *)
(* Abstractions used throughout:                                           *)
(*  - api::time() is the variable now; it is constant inside one message   *)
(*    and several messages may execute at the same value.                  *)
(*  - SHA-256 and ECDSA are ideal: a digest is its preimage, a signature   *)
(*    is the pair (signing key, message) and verifies only under the       *)
(*    matching public key over the same message.                           *)
(*  - A StableBTreeMap is a function whose DOMAIN is the set of keys; each  *)
(*    map holds what its own code writes, and MemoryIdOf names the virtual *)
(*    memory it is placed in.                                              *)
(*  - issued, calls and last are history variables: the codes prints have  *)
(*    returned, the number of verify and redeem requests, and the last     *)
(*    request with its response.                                           *)
(*                                                                         *)
(* Specifications: Spec (product lifecycle), SpecReq (verification request *)
(* fields), SpecMove (products moving between organizations), SpecSat      *)
(* (a serial printed past the u8 range), SpecLedger (verification and      *)
(* redemption by a customer), SpecLimiter (the rate limiter on its own),   *)
(* SpecRate (verification requests across rate-limit windows), SpecRewards *)
(* (reward calculations and promotions), SpecCounters (reward counters at  *)
(* the end of the u32 range), SpecRedeem (redemption with every code),     *)
(* SpecReseller (reseller codes over their lifetime), SpecAccess (roles    *)
(* and organization keys), SpecReview (product reviews across outcalls),   *)
(* SpecReviewFair (the same with outcalls and timers that resume),         *)
(* SpecBrute (redemptions with guessed codes), SpecFrame (verifications    *)
(* that fail), SpecCallers (two callers of one product), SpecPromo         *)
(* (products under a promotion that comes and goes).                       *)
(***************************************************************************)
EXTENDS Integers, Sequences, FiniteSets, TLC

\* ---------------------------------------------------------------- bounds
MaxKeys == 2
MaxSerials == 2
MaxPrints == 2
MaxCalls == 3
SatExtra == 1
MaxAttempts == 7

\* Ids come from the time of the call: as many instants as serial records
MaxTime == MaxSerials - 1

\* ------------------------------------------------------ program constants
U8_MAX == 255
MAX_ATTEMPTS_PER_WINDOW == 5
WINDOW_DURATION_SECONDS == 300
FIRST_VERIFICATION_POINTS == 100
MULTIPLE_VERIFICATION_POINTS == 10
SPECIAL_PROMOTION_POINTS == 50
UNIQUE_CODE_EXPIRATION_SECONDS == 300
NANOS_PER_SECOND == 1000000000

\* The MemoryId each stable collection asks the shared MEMORY_MANAGER for.
ORGANIZATIONS_ID == 1
PRODUCTS_ID == 2
USERS_ID == 3
RESELLERS_ID == 4
PRODUCT_SERIAL_NUMBERS_ID == 5
PRODUCT_VERIFICATIONS_ID == 6
RATE_LIMIT_MEM_ID == 6
USER_REWARDS_MEM_ID == 7
USER_VERIFIED_PRODUCTS_MEM_ID == 8
PROMOTIONS_MEM_ID == 9

\* StableBTreeMap::init(MEMORY_MANAGER.with(|m| m.borrow().get(id))) of each
\* thread_local collection: the id of the virtual memory the map lives in
MemoryIdOf ==
    [ORGANIZATIONS |-> ORGANIZATIONS_ID,
     PRODUCTS |-> PRODUCTS_ID,
     USERS |-> USERS_ID,
     RESELLERS |-> RESELLERS_ID,
     PRODUCT_SERIAL_NUMBERS |-> PRODUCT_SERIAL_NUMBERS_ID,
     PRODUCT_VERIFICATIONS |-> PRODUCT_VERIFICATIONS_ID,
     RATE_LIMITS |-> RATE_LIMIT_MEM_ID,
     USER_REWARDS |-> USER_REWARDS_MEM_ID,
     USER_VERIFIED_PRODUCTS |-> USER_VERIFIED_PRODUCTS_MEM_ID,
     PROMOTIONS |-> PROMOTIONS_MEM_ID]

\* Principals that call the canister.
Callers == {"u1", "u2"}

\* Callers that register organizations, and callers that verify and redeem,
\* in the checked behaviours.
Owners == {"u1"}
Customers == {"u2"}

\* Absent values (Option::None) of the three id-like types.
NoId == -1
NoTx == <<>>
NoTimestamp == -1

VARIABLES
    now,                \* api::time()
    entropy,            \* number of signing keys drawn from the RNG so far
    users,              \* USERS: caller -> [user_role, org_ids]
    organizations,      \* ORGANIZATIONS: id -> [private_key]
    products,           \* PRODUCTS: id -> [org_id, public_key, metadata]
    serial_numbers,     \* PRODUCT_SERIAL_NUMBERS: product id -> Seq(ProductSerialNumber)
    verifications,      \* PRODUCT_VERIFICATIONS: product id -> Seq(ProductVerification)
    rate_limits,        \* RATE_LIMITS: <<user, product>> -> RateLimitEntry
    user_rewards,       \* USER_REWARDS: user -> UserRewards
    verified_products,  \* USER_VERIFIED_PRODUCTS: user -> Seq(product id)
    promotions,         \* PROMOTIONS: set of product ids with a promotion
    hash_desc,          \* whether Principal order of generated ids reverses time order
    resellers,          \* RESELLERS: id -> [org_id]
    reviews,            \* generate_product_review_v2 calls suspended on an HTTP outcall
    issued,             \* history: <<product, serial>> -> Seq of codes returned by prints
    calls,              \* history: number of verify/redeem calls so far (bounded)
    last                \* history: the last call and its response

vars == <<now, entropy, users, organizations, products, serial_numbers,
          verifications, rate_limits, user_rewards, verified_products,
          promotions, hash_desc, resellers, reviews, issued, calls, last>>

\* ---------------------------------------------------------------- helpers
Put(f, k, v) == [x \in (DOMAIN f) \cup {k} |-> IF x = k THEN v ELSE f[x]]

Get(f, k, default) == IF k \in DOMAIN f THEN f[k] ELSE default

EmptyMap == [x \in {} |-> 0]

Range(s) == {s[i] : i \in 1..Len(s)}

\* iter().position(|sn| sn.serial_no == serial_no): the first index of a
\* record with the serial number, 0 if none
SerialPosition(sn_vec, serial_no) ==
    IF \E i \in 1..Len(sn_vec) : sn_vec[i].serial_no = serial_no
    THEN CHOOSE i \in 1..Len(sn_vec) :
             /\ sn_vec[i].serial_no = serial_no
             /\ \A j \in 1..(i - 1) : sn_vec[j].serial_no # serial_no
    ELSE 0

\* A record search that takes a record of any print_version.
VerificationPositionAnyVersion(vs, caller, serial_no, print_version) ==
    LET IsTarget(v) == v.created_by = caller /\ v.serial_no = serial_no
    IN IF \E i \in 1..Len(vs) : IsTarget(vs[i])
       THEN CHOOSE i \in 1..Len(vs) :
                IsTarget(vs[i]) /\ \A j \in 1..(i - 1) : ~IsTarget(vs[j])
       ELSE 0

\* A record search that also takes a record of an earlier print_version.
VerificationPositionUpToVersion(vs, caller, serial_no, print_version) ==
    LET IsTarget(v) == /\ v.created_by = caller
                       /\ v.serial_no = serial_no
                       /\ v.print_version <= print_version
    IN IF \E i \in 1..Len(vs) : IsTarget(vs[i])
       THEN CHOOSE i \in 1..Len(vs) :
                IsTarget(vs[i]) /\ \A j \in 1..(i - 1) : ~IsTarget(vs[j])
       ELSE 0

\* iter().position(..) over a verification list: the first index of a record
\* made by the caller for the serial number at the print_version, 0 if none
VerificationPosition(vs, caller, serial_no, print_version) ==
    LET IsTarget(v) == /\ v.created_by = caller
                       /\ v.serial_no = serial_no
                       /\ v.print_version = print_version
    IN IF \E i \in 1..Len(vs) : IsTarget(vs[i])
       THEN CHOOSE i \in 1..Len(vs) :
                IsTarget(vs[i]) /\ \A j \in 1..(i - 1) : ~IsTarget(vs[j])
       ELSE 0

\* A u32 is kept as two 16-bit digits, hi * 65536 + lo, so that the values
\* next to its largest stay within the integers of the checker.
U16_RADIX == 65536

\* The u32 of a number below 2^31
U32(n) == [hi |-> n \div U16_RADIX, lo |-> n % U16_RADIX]

\* u32::MAX
U32_MAX == [hi |-> U16_RADIX - 1, lo |-> U16_RADIX - 1]

\* a + n leaves the range of u32, for a u32 a and a number n below 2^31
U32AddOverflows(a, n) ==
    a.hi + (n \div U16_RADIX) + ((a.lo + (n % U16_RADIX)) \div U16_RADIX) >= U16_RADIX

\* a += n on a u32 in a build without overflow checks: the sum modulo 2^32
U32WrappingAdd(a, n) ==
    [hi |-> (a.hi + (n \div U16_RADIX) + ((a.lo + (n % U16_RADIX)) \div U16_RADIX))
                % U16_RADIX,
     lo |-> (a.lo + (n % U16_RADIX)) % U16_RADIX]

\* a <= b on u32
U32Leq(a, b) == a.hi < b.hi \/ (a.hi = b.hi /\ a.lo <= b.lo)

\* What a u32 += that leaves the range does: it wraps (TRUE) in a build
\* without overflow checks and panics (FALSE) in a build with them; an
\* addition that stays in range does the one thing
OverflowOutcomes(overflows) == IF overflows THEN {TRUE, FALSE} ELSE {TRUE}

\* u8::saturating_add
saturating_add(a, b) == IF a + b > U8_MAX THEN U8_MAX ELSE a + b

\* utils::generate_unique_principal(Principal::anonymous()): the first 29 bytes
\* of SHA-256("2vxsx-fae-<time>"); every call site passes the anonymous
\* principal, so the id is a function of the time of the call alone.
generate_unique_principal(t) == t

\* SigningKey::random: a key never drawn before
FreshKey == entropy + 1

\* signing_key.verifying_key(), hex of the encoded point
verifying_key(private_key) == [pub |-> private_key]

\* A message that leaves the print_version out.
ProductMessageUnversioned(product_id, serial_no, print_version) ==
    <<product_id, serial_no, 0>>

\* format!("{}_{}_{}", product_id, serial_no, print_version)
ProductMessage(product_id, serial_no, print_version) ==
    <<product_id, serial_no, print_version>>

\* hex::encode(private_key.sign(Sha256(msg)).to_bytes()); RFC 6979 signing is
\* deterministic, so equal key and message give the same code.
SignCode(private_key, msg) == [kind |-> "sig", k |-> private_key, m |-> msg]

\* Inputs that are not signatures: not hex at all, hex of the wrong length.
NotHexCode == [kind |-> "nothex", k |-> 0, m |-> <<NoId, NoId, 0>>]
BadSigCode == [kind |-> "badsig", k |-> 0, m |-> <<NoId, NoId, 0>>]
\* A well-formed signature made with a key no organization holds.
ForgedCode == [kind |-> "sig", k |-> 0, m |-> <<NoId, NoId, 0>>]

\* A check that accepts every well-formed signature.
VerifySignatureAny(public_key, msg, code) == code.kind = "sig"

\* public_key.verify(Sha256(msg), signature)
VerifySignature(public_key, msg, code) ==
    code.kind = "sig" /\ code.k = public_key.pub /\ code.m = msg

\* ---------------------------------------------------------- authorization
\* auth::get_role_permissions, restricted to the permissions the model uses
get_role_permissions(role) ==
    CASE role = "Admin" -> {"ReadOrganization", "WriteOrganization", "ReadProduct", "WriteProduct"}
      [] role = "BrandOwner" -> {"ReadOrganization", "WriteOrganization", "ReadProduct", "WriteProduct"}
      [] role = "Reseller" -> {"ReadOrganization", "ReadProduct"}
      [] OTHER -> {}

\* auth::authorize_for_organization: "ok" or the error kind
authorize_for_organization(caller, org_id, permission) ==
    IF caller \notin DOMAIN users THEN "NotFound"
    ELSE IF users[caller].user_role = "None" THEN "Unauthorized"
    ELSE IF permission \notin get_role_permissions(users[caller].user_role) THEN "Unauthorized"
    ELSE IF org_id \notin DOMAIN organizations THEN "NotFound"
    ELSE IF users[caller].user_role # "Admin" /\ org_id \notin users[caller].org_ids
         THEN "Unauthorized"
    ELSE "ok"

\* ------------------------------------------------------------- responses
\* api::RateLimitInfo of a response that carries none
NoRateLimitInfo ==
    [remaining_attempts |-> 0, reset_time |-> 0, current_window_start |-> 0]

NoCall ==
    [op |-> "none", caller |-> "none", product_id |-> NoId, serial_no |-> NoId,
     print_version |-> 0, unique_code |-> NotHexCode, timestamp |-> NoTimestamp,
     ok |-> TRUE, status |-> "none", points |-> 0, is_first |-> FALSE,
     tx |-> NoTx, rate_limit_info |-> NoRateLimitInfo, message |-> <<>>,
     special_reward |-> FALSE, reward_description |-> FALSE,
     reseller_id |-> NoId, context |-> "", private_key |-> 0]

Init ==
    /\ now = 0
    /\ entropy = 0
    /\ users = EmptyMap
    /\ organizations = EmptyMap
    /\ products = EmptyMap
    /\ serial_numbers = EmptyMap
    /\ verifications = EmptyMap
    /\ rate_limits = EmptyMap
    /\ user_rewards = EmptyMap
    /\ verified_products = EmptyMap
    /\ promotions = {}
    /\ hash_desc \in BOOLEAN
    /\ resellers = EmptyMap
    /\ reviews = <<>>
    /\ issued = EmptyMap
    /\ calls = 0
    /\ last = NoCall

\* Canister time advances between messages by d, up to maxTime.
Tick(d, maxTime) ==
    /\ now + d <= maxTime
    /\ now' = now + d
    /\ UNCHANGED <<entropy, users, organizations, products, serial_numbers,
                   verifications, rate_limits, user_rewards, verified_products,
                   promotions, hash_desc, resellers, reviews, issued, calls, last>>

\* User::default(): no role, no organization, no "selectedOrgId" entry in
\* detail_meta, no session key. org_ids is a Vec read only through contains,
\* a set here; session_keys only ever holds the user's own principal, and
\* session_key tells whether it does.
DefaultUser ==
    [user_role |-> "None", org_ids |-> {}, selected_org |-> NoId, session_key |-> FALSE]

\* register_as_organization: create_organization (which registers the caller
\* when unknown and stores a new organization with a fresh key under an id
\* generated from the time), then the caller becomes BrandOwner of it.
register_as_organization(caller, maxKeys) ==
    LET id == generate_unique_principal(now)
        user == Get(users, caller, DefaultUser)
    IN /\ entropy < maxKeys
       /\ entropy' = entropy + 1
       /\ organizations' = Put(organizations, id, [private_key |-> FreshKey])
       /\ users' = Put(users, caller,
                       [user EXCEPT !.user_role = "BrandOwner",
                                    !.org_ids = user.org_ids \cup {id}])
       /\ last' = [NoCall EXCEPT !.op = "register_as_organization"]
       /\ UNCHANGED <<now, products, serial_numbers, verifications,
                      rate_limits, user_rewards, verified_products, promotions,
                      hash_desc, resellers, reviews, issued, calls>>

\* A principal that generate_unique_principal never returned.
UnknownId == -2

\* serial_no values present in some product's list
StoredSerialNos ==
    UNION {{serial_numbers[p][i].serial_no : i \in 1..Len(serial_numbers[p])} :
           p \in DOMAIN serial_numbers}

\* Principals a caller passes as a product id, a serial number, an organization id
ProductArgs == (DOMAIN products) \cup {UnknownId}
SerialArgs == StoredSerialNos \cup {UnknownId}
OrgArgs == (DOMAIN organizations) \cup {UnknownId}

\* hex::decode of the stored private key followed by SigningKey::from_slice
ValidPrivateKey(private_key) == private_key > 0

\* A print whose result carries the print_version read before the increment.
generate_and_store_returning_read_version(sn, product_id, serial_no, private_key) ==
    LET product_sn_vec == Get(sn, product_id, <<>>)
        sn_idx == SerialPosition(product_sn_vec, serial_no)
        new_version == saturating_add(product_sn_vec[sn_idx].print_version, 1)
        updated == [product_sn_vec EXCEPT ![sn_idx] =
                       [@ EXCEPT !.print_version = new_version]]
        failed(kind) == [status |-> kind, sn |-> sn, print_version |-> 0,
                         unique_code |-> NotHexCode]
    IN IF product_id \notin DOMAIN sn THEN failed("NotFound")
       ELSE IF sn_idx = 0 THEN failed("NotFound")
       ELSE IF ~ValidPrivateKey(private_key) THEN failed("InternalError")
       ELSE [status |-> "ok",
             sn |-> Put(sn, product_id, updated),
             print_version |-> product_sn_vec[sn_idx].print_version,
             unique_code |-> SignCode(private_key,
                                ProductMessage(product_id, serial_no, new_version))]

\* generate_and_store_unique_code_for_serial, on the serial map sn: the error
\* kind or "ok", the serial map to store, and the returned record.
generate_and_store_unique_code_for_serial(sn, product_id, serial_no, private_key) ==
    LET product_sn_vec == Get(sn, product_id, <<>>)
        sn_idx == SerialPosition(product_sn_vec, serial_no)
        new_version == saturating_add(product_sn_vec[sn_idx].print_version, 1)
        updated == [product_sn_vec EXCEPT ![sn_idx] =
                       [@ EXCEPT !.print_version = new_version]]
        failed(kind) == [status |-> kind, sn |-> sn, print_version |-> 0,
                         unique_code |-> NotHexCode]
    IN IF product_id \notin DOMAIN sn THEN failed("NotFound")
       ELSE IF sn_idx = 0 THEN failed("NotFound")
       ELSE IF ~ValidPrivateKey(private_key) THEN failed("InternalError")
       ELSE [status |-> "ok",
             sn |-> Put(sn, product_id, updated),
             print_version |-> new_version,
             unique_code |-> SignCode(private_key,
                                ProductMessage(product_id, serial_no, new_version))]

\* The number of elements of all the sequences of the map f
RECURSIVE TotalLen(_)
TotalLen(f) ==
    IF DOMAIN f = {} THEN 0
    ELSE LET k == CHOOSE x \in DOMAIN f : TRUE
         IN Len(f[k]) + TotalLen([x \in (DOMAIN f) \ {k} |-> f[x]])

\* The codes returned so far by prints of the serial (product_id, serial_no)
IssuedFor(product_id, serial_no) == Get(issued, <<product_id, serial_no>>, <<>>)

RecordIssued(product_id, serial_no, code) ==
    Put(issued, <<product_id, serial_no>>, Append(IssuedFor(product_id, serial_no), code))

\* create_product; maxPrints bounds the number of codes printed
\* Of a product's metadata the model keeps the entries the program reads or
\* writes by key: "product_review" and "latest_product_review_generation".
\* The ProductInput of create_product and update_product carries none of them.
InputMetadata == <<>>

create_product(caller, org_id, maxPrints) ==
    LET auth == authorize_for_organization(caller, org_id, "WriteProduct")
        new_product_id == generate_unique_principal(now)
        new_serial_principal == generate_unique_principal(now)
        private_key == organizations[org_id].private_key
        sn1 == Put(serial_numbers, new_product_id,
                   Append(Get(serial_numbers, new_product_id, <<>>),
                          [serial_no |-> new_serial_principal, print_version |-> 0]))
        r == generate_and_store_unique_code_for_serial(
                 sn1, new_product_id, new_serial_principal, private_key)
        call == [NoCall EXCEPT !.op = "create_product"]
    IN IF auth # "ok"
       THEN /\ last' = [call EXCEPT !.ok = FALSE, !.status = auth]
            /\ UNCHANGED <<now, entropy, users, organizations, products,
                           serial_numbers, verifications, rate_limits, user_rewards,
                           verified_products, promotions, hash_desc, resellers, reviews, issued, calls>>
       ELSE /\ TotalLen(serial_numbers) < MaxSerials
            /\ TotalLen(issued) < maxPrints
            /\ IF ~ValidPrivateKey(private_key)
               THEN /\ last' = [call EXCEPT !.ok = FALSE, !.status = "InvalidInput"]
                    /\ UNCHANGED <<products, serial_numbers, issued>>
               ELSE IF r.status # "ok"
               THEN /\ serial_numbers' = sn1
                    /\ last' = [call EXCEPT !.ok = FALSE, !.status = "InternalError"]
                    /\ UNCHANGED <<products, issued>>
               ELSE /\ serial_numbers' = r.sn
                    /\ products' = Put(products, new_product_id,
                                       [org_id |-> org_id,
                                        public_key |-> verifying_key(private_key),
                                        metadata |-> InputMetadata])
                    /\ issued' = RecordIssued(new_product_id, new_serial_principal,
                                              r.unique_code)
                    /\ last' = [call EXCEPT !.product_id = new_product_id,
                                            !.serial_no = new_serial_principal,
                                            !.print_version = r.print_version,
                                            !.unique_code = r.unique_code,
                                            !.status = "ok"]
            /\ UNCHANGED <<now, entropy, users, organizations, verifications,
                           rate_limits, user_rewards, verified_products, promotions,
                           hash_desc, resellers, reviews, calls>>

\* update_product: only org_id matters here; public_key is copied from the
\* stored product (..product.clone()).
update_product(caller, id, org_id) ==
    LET call == [NoCall EXCEPT !.op = "update_product"]
        product == products[id]
        auth == authorize_for_organization(caller, product.org_id, "WriteProduct")
        new_org_auth == authorize_for_organization(caller, org_id, "WriteProduct")
        status == IF id \notin DOMAIN products THEN "NotFound"
                  ELSE IF auth # "ok" THEN auth
                  ELSE IF product.org_id # org_id /\ new_org_auth # "ok" THEN "Unauthorized"
                  ELSE "ok"
    IN /\ products' = IF status = "ok"
                      THEN Put(products, id, [product EXCEPT !.org_id = org_id,
                                                             !.metadata = InputMetadata])
                      ELSE products
       /\ last' = [call EXCEPT !.ok = (status = "ok"), !.status = status]
       /\ UNCHANGED <<now, entropy, users, organizations, serial_numbers,
                      verifications, rate_limits, user_rewards, verified_products,
                      promotions, hash_desc, resellers, reviews, issued, calls>>

\* create_product_serial_number
create_product_serial_number(caller, product_id) ==
    LET call == [NoCall EXCEPT !.op = "create_product_serial_number"]
        auth == authorize_for_organization(caller, products[product_id].org_id,
                                           "WriteProduct")
        serial_no == generate_unique_principal(now)
        status == IF product_id \notin DOMAIN products THEN "NotFound" ELSE auth
        current_entries == Get(serial_numbers, product_id, <<>>)
    IN /\ status = "ok" => TotalLen(serial_numbers) < MaxSerials
       /\ serial_numbers' =
              IF status = "ok"
              THEN Put(serial_numbers, product_id,
                       Append(current_entries,
                              [serial_no |-> serial_no, print_version |-> 0]))
              ELSE serial_numbers
       /\ last' = [call EXCEPT !.ok = (status = "ok"), !.status = status]
       /\ UNCHANGED <<now, entropy, users, organizations, products,
                      verifications, rate_limits, user_rewards, verified_products,
                      promotions, hash_desc, resellers, reviews, issued, calls>>

\* A clone that loses its print count.
UpdatedSerialReprinted(sn) == [sn EXCEPT !.print_version = 0]

\* The clone written back by update_product_serial_number: only updated_at and
\* updated_by differ from the stored record, and the model carries neither.
UpdatedSerial(sn) == sn

\* update_product_serial_number: rewrites the first matching record
update_product_serial_number(caller, product_id, serial_no) ==
    LET call == [NoCall EXCEPT !.op = "update_product_serial_number"]
        product_sn_vec == Get(serial_numbers, product_id, <<>>)
        idx == SerialPosition(product_sn_vec, serial_no)
        status == IF product_id \notin DOMAIN serial_numbers THEN "NotFound"
                  ELSE IF idx = 0 THEN "NotFound"
                  ELSE "ok"
    IN /\ serial_numbers' =
              IF status = "ok"
              THEN Put(serial_numbers, product_id,
                       [product_sn_vec EXCEPT ![idx] = UpdatedSerial(@)])
              ELSE serial_numbers
       /\ last' = [call EXCEPT !.ok = (status = "ok"), !.status = status]
       /\ UNCHANGED <<now, entropy, users, organizations, products,
                      verifications, rate_limits, user_rewards, verified_products,
                      promotions, hash_desc, resellers, reviews, issued, calls>>

\* print_product_serial_number; maxPrints bounds the number of codes printed
print_product_serial_number(caller, product_id, serial_no, maxPrints) ==
    LET call == [NoCall EXCEPT !.op = "print_product_serial_number"]
        product == products[product_id]
        r == generate_and_store_unique_code_for_serial(
                 serial_numbers, product_id, serial_no,
                 organizations[product.org_id].private_key)
        status == IF product_id \notin DOMAIN products THEN "NotFound"
                  ELSE IF product.org_id \notin DOMAIN organizations THEN "NotFound"
                  ELSE r.status
    IN /\ status = "ok" => TotalLen(issued) < maxPrints
       /\ IF status = "ok"
          THEN /\ serial_numbers' = r.sn
               /\ issued' = RecordIssued(product_id, serial_no, r.unique_code)
               /\ last' = [call EXCEPT !.status = "ok",
                                       !.product_id = product_id,
                                       !.serial_no = serial_no,
                                       !.print_version = r.print_version,
                                       !.unique_code = r.unique_code]
          ELSE /\ serial_numbers' =
                      IF product_id \in DOMAIN products
                         /\ product.org_id \in DOMAIN organizations
                      THEN r.sn ELSE serial_numbers
               /\ last' = [call EXCEPT !.ok = FALSE, !.status = status]
               /\ UNCHANGED issued
       /\ UNCHANGED <<now, entropy, users, organizations, products,
                      verifications, rate_limits, user_rewards, verified_products,
                      promotions, hash_desc, resellers, reviews, calls>>

\* ------------------------------------------------------------ rate limiter
NewRateLimitEntry == [attempts |-> 0, window_start |-> now, last_attempt |-> 0]

\* rate_limiter::check_rate_limit on the map rl: the RateLimitInfo returned;
\* the function only borrows the map
check_rate_limit(rl, user_id, product_id) ==
    LET key == <<user_id, product_id>>
        stored == Get(rl, key, NewRateLimitEntry)
        entry == IF key \in DOMAIN rl /\ now > stored.window_start + WINDOW_DURATION_SECONDS
                 THEN [stored EXCEPT !.attempts = 0, !.window_start = now]
                 ELSE stored
    IN [remaining_attempts |->
            IF entry.attempts >= MAX_ATTEMPTS_PER_WINDOW THEN 0
            ELSE MAX_ATTEMPTS_PER_WINDOW - entry.attempts,
        reset_time |-> entry.window_start + WINDOW_DURATION_SECONDS,
        current_window_start |-> entry.window_start]

\* An attempt recorder that also counts the attempts it rejects.
record_verification_attempt_counting_rejected(rl, user_id, product_id) ==
    LET key == <<user_id, product_id>>
        stored == Get(rl, key, NewRateLimitEntry)
        entry == IF key \in DOMAIN rl /\ now > stored.window_start + WINDOW_DURATION_SECONDS
                 THEN [stored EXCEPT !.window_start = now, !.attempts = 0]
                 ELSE stored
        counted == [entry EXCEPT !.attempts = entry.attempts + 1, !.last_attempt = now]
    IN IF entry.attempts >= MAX_ATTEMPTS_PER_WINDOW
       THEN [admitted |-> FALSE, rl |-> Put(rl, key, counted), remaining_attempts |-> 0,
             reset_time |-> entry.window_start + WINDOW_DURATION_SECONDS,
             current_window_start |-> entry.window_start]
       ELSE [admitted |-> TRUE, rl |-> Put(rl, key, counted),
             remaining_attempts |->
                 IF counted.attempts >= MAX_ATTEMPTS_PER_WINDOW THEN 0
                 ELSE MAX_ATTEMPTS_PER_WINDOW - counted.attempts,
             reset_time |-> counted.window_start + WINDOW_DURATION_SECONDS,
             current_window_start |-> counted.window_start]

\* An attempt recorder that restarts an expired window without clearing its
\* count.
record_verification_attempt_keeping_count(rl, user_id, product_id) ==
    LET key == <<user_id, product_id>>
        stored == Get(rl, key, NewRateLimitEntry)
        entry == IF key \in DOMAIN rl /\ now > stored.window_start + WINDOW_DURATION_SECONDS
                 THEN [stored EXCEPT !.window_start = now]
                 ELSE stored
        counted == [entry EXCEPT !.attempts = entry.attempts + 1, !.last_attempt = now]
    IN IF entry.attempts >= MAX_ATTEMPTS_PER_WINDOW
       THEN [admitted |-> FALSE, rl |-> rl, remaining_attempts |-> 0,
             reset_time |-> entry.window_start + WINDOW_DURATION_SECONDS,
             current_window_start |-> entry.window_start]
       ELSE [admitted |-> TRUE, rl |-> Put(rl, key, counted),
             remaining_attempts |->
                 IF counted.attempts >= MAX_ATTEMPTS_PER_WINDOW THEN 0
                 ELSE MAX_ATTEMPTS_PER_WINDOW - counted.attempts,
             reset_time |-> counted.window_start + WINDOW_DURATION_SECONDS,
             current_window_start |-> counted.window_start]

\* An attempt recorder whose entry is stored under a key without the product.
record_verification_attempt_keyed_by_user(rl, user_id, product_id) ==
    LET key == <<user_id, product_id>>
        stored == Get(rl, key, NewRateLimitEntry)
        entry == IF key \in DOMAIN rl /\ now > stored.window_start + WINDOW_DURATION_SECONDS
                 THEN [stored EXCEPT !.window_start = now, !.attempts = 0]
                 ELSE stored
        counted == [entry EXCEPT !.attempts = entry.attempts + 1, !.last_attempt = now]
    IN IF entry.attempts >= MAX_ATTEMPTS_PER_WINDOW
       THEN [admitted |-> FALSE, rl |-> rl, remaining_attempts |-> 0,
             reset_time |-> entry.window_start + WINDOW_DURATION_SECONDS,
             current_window_start |-> entry.window_start]
       ELSE [admitted |-> TRUE, rl |-> Put(rl, <<user_id, NoId>>, counted),
             remaining_attempts |->
                 IF counted.attempts >= MAX_ATTEMPTS_PER_WINDOW THEN 0
                 ELSE MAX_ATTEMPTS_PER_WINDOW - counted.attempts,
             reset_time |-> counted.window_start + WINDOW_DURATION_SECONDS,
             current_window_start |-> counted.window_start]

\* rate_limiter::record_verification_attempt on the map rl: whether the attempt
\* is admitted, the map to store, and the RateLimitInfo fields
record_verification_attempt(rl, user_id, product_id) ==
    LET key == <<user_id, product_id>>
        stored == Get(rl, key, NewRateLimitEntry)
        entry == IF key \in DOMAIN rl /\ now > stored.window_start + WINDOW_DURATION_SECONDS
                 THEN [stored EXCEPT !.window_start = now, !.attempts = 0]
                 ELSE stored
        counted == [entry EXCEPT !.attempts = entry.attempts + 1, !.last_attempt = now]
    IN IF entry.attempts >= MAX_ATTEMPTS_PER_WINDOW
       THEN [admitted |-> FALSE, rl |-> rl, remaining_attempts |-> 0,
             reset_time |-> entry.window_start + WINDOW_DURATION_SECONDS,
             current_window_start |-> entry.window_start]
       ELSE [admitted |-> TRUE, rl |-> Put(rl, key, counted),
             remaining_attempts |->
                 IF counted.attempts >= MAX_ATTEMPTS_PER_WINDOW THEN 0
                 ELSE MAX_ATTEMPTS_PER_WINDOW - counted.attempts,
             reset_time |-> counted.window_start + WINDOW_DURATION_SECONDS,
             current_window_start |-> counted.window_start]

\* A success recorder that gives the attempt back.
record_successful_verification_resetting(rl, user_id, product_id) ==
    LET key == <<user_id, product_id>>
    IN IF key \in DOMAIN rl
       THEN Put(rl, key, [rl[key] EXCEPT !.last_attempt = now, !.attempts = 0])
       ELSE rl

\* rate_limiter::record_successful_verification on the map rl
record_successful_verification(rl, user_id, product_id) ==
    LET key == <<user_id, product_id>>
    IN IF key \in DOMAIN rl
       THEN Put(rl, key, [rl[key] EXCEPT !.last_attempt = now])
       ELSE rl

\* format!("Rate limit exceeded. Try again after {}", reset_time): the text of
\* the ErrorDetails, whose details list is empty
RateLimitMessage(reset_time) == <<"Rate limit exceeded. Try again after", reset_time>>

\* One call of rate_limiter::record_verification_attempt; maxCalls bounds the
\* number of calls
RecordAttempt(user_id, product_id, maxCalls) ==
    LET r == record_verification_attempt(rate_limits, user_id, product_id)
        call == [NoCall EXCEPT !.op = "record_verification_attempt",
                               !.caller = user_id, !.product_id = product_id]
    IN /\ calls < maxCalls
       /\ calls' = calls + 1
       /\ rate_limits' = r.rl
       /\ last' = IF r.admitted
                  THEN [call EXCEPT !.status = "ok",
                                    !.rate_limit_info =
                                        [remaining_attempts |-> r.remaining_attempts,
                                         reset_time |-> r.reset_time,
                                         current_window_start |-> r.current_window_start]]
                  ELSE [call EXCEPT !.ok = FALSE, !.status = "InvalidInput",
                                    !.message = RateLimitMessage(r.reset_time)]
       /\ UNCHANGED <<now, entropy, users, organizations, products, serial_numbers,
                      verifications, user_rewards, verified_products, promotions,
                      hash_desc, resellers, reviews, issued>>

\* One call of rate_limiter::record_successful_verification
RecordSuccess(user_id, product_id) ==
    /\ rate_limits' = record_successful_verification(rate_limits, user_id, product_id)
    /\ last' = [NoCall EXCEPT !.op = "record_successful_verification",
                              !.caller = user_id, !.product_id = product_id]
    /\ UNCHANGED <<now, entropy, users, organizations, products, serial_numbers,
                   verifications, user_rewards, verified_products, promotions,
                   hash_desc, resellers, reviews, issued, calls>>

\* A rate-limit query that stores the window it computed.
get_verification_rate_limit_storing(caller, product_id) ==
    LET info == check_rate_limit(rate_limits, caller, product_id)
        key == <<caller, product_id>>
        stored == Get(rate_limits, key, NewRateLimitEntry)
    IN /\ last' = [NoCall EXCEPT !.op = "get_verification_rate_limit",
                                 !.caller = caller, !.product_id = product_id,
                                 !.rate_limit_info = info]
       /\ rate_limits' =
              Put(rate_limits, key,
                  [stored EXCEPT !.window_start = info.current_window_start,
                                 !.attempts = MAX_ATTEMPTS_PER_WINDOW - info.remaining_attempts])
       /\ UNCHANGED <<now, entropy, users, organizations, products, serial_numbers,
                      verifications, user_rewards, verified_products,
                      promotions, hash_desc, resellers, reviews, issued, calls>>

\* get_verification_rate_limit, a query: the RateLimitInfo of check_rate_limit
get_verification_rate_limit(caller, product_id) ==
    /\ last' = [NoCall EXCEPT !.op = "get_verification_rate_limit",
                              !.caller = caller, !.product_id = product_id,
                              !.rate_limit_info =
                                  check_rate_limit(rate_limits, caller, product_id)]
    /\ UNCHANGED <<now, entropy, users, organizations, products, serial_numbers,
                   verifications, rate_limits, user_rewards, verified_products,
                   promotions, hash_desc, resellers, reviews, issued, calls>>

\* ----------------------------------------------------------------- rewards
\* A first-verification test that forgets what the user verified.
is_first_verification_forgetful(vp, user_id, product_id) == TRUE

\* rewards::is_first_verification_for_user on the map vp
is_first_verification_for_user(vp, user_id, product_id) ==
    product_id \notin Get(vp, user_id, {})

\* A recorder that stores nothing.
record_product_verification_forgetting(vp, user_id, product_id) == vp

\* A recorder that keeps the list of the last user only.
record_product_verification_replacing(vp, user_id, product_id) ==
    [u \in {user_id} |-> Get(vp, user_id, {}) \cup {product_id}]

\* rewards::record_product_verification on the map vp; verified_products is a
\* Vec kept free of duplicates and read only through contains, a set here
record_product_verification(vp, user_id, product_id) ==
    Put(vp, user_id, Get(vp, user_id, {}) \cup {product_id})

\* An update that counts every rewarded verification as a first one.
update_user_rewards_counting_every(ur, user_id, points, is_first_verification) ==
    LET old == Get(ur, user_id,
                   [total_points |-> U32(0), verification_count |-> U32(0),
                    first_verifications |-> U32(0)])
    IN Put(ur, user_id,
           [total_points |-> U32WrappingAdd(old.total_points, points),
            verification_count |-> U32WrappingAdd(old.verification_count, 1),
            first_verifications |-> U32WrappingAdd(old.first_verifications, 1)])

\* rewards::update_user_rewards on the map ur, the three counters being u32
\* updated with +=
update_user_rewards(ur, user_id, points, is_first_verification) ==
    LET old == Get(ur, user_id,
                   [total_points |-> U32(0), verification_count |-> U32(0),
                    first_verifications |-> U32(0)])
    IN Put(ur, user_id,
           [total_points |-> U32WrappingAdd(old.total_points, points),
            verification_count |-> U32WrappingAdd(old.verification_count, 1),
            first_verifications |->
                U32WrappingAdd(old.first_verifications,
                               IF is_first_verification THEN 1 ELSE 0)])

\* One of the three += of update_user_rewards leaves the range of u32
update_user_rewards_overflows(ur, user_id, points, is_first_verification) ==
    /\ user_id \in DOMAIN ur
    /\ \/ U32AddOverflows(ur[user_id].total_points, points)
       \/ U32AddOverflows(ur[user_id].verification_count, 1)
       \/ is_first_verification /\ U32AddOverflows(ur[user_id].first_verifications, 1)

\* Base points that pay every verification alike.
BasePointsFlat(status) ==
    CASE status = "FirstVerification" -> MULTIPLE_VERIFICATION_POINTS
      [] status = "MultipleVerification" -> MULTIPLE_VERIFICATION_POINTS
      [] OTHER -> 0

\* base points of a verification status
BasePoints(status) ==
    CASE status = "FirstVerification" -> FIRST_VERIFICATION_POINTS
      [] status = "MultipleVerification" -> MULTIPLE_VERIFICATION_POINTS
      [] OTHER -> 0

\* rewards::calculate_verification_rewards on the maps vp and ur: the
\* VerificationRewards returned and the maps to store
calculate_verification_rewards(vp, ur, user_id, product_id, status) ==
    LET is_first_verification == is_first_verification_for_user(vp, user_id, product_id)
        special_reward == product_id \in promotions
        promotion_points == IF special_reward THEN SPECIAL_PROMOTION_POINTS ELSE 0
        total_points == BasePoints(status) + promotion_points
    IN [points |-> total_points,
        is_first_verification |-> is_first_verification,
        special_reward |-> special_reward,
        reward_description |-> special_reward,
        vp |-> IF status # "Invalid"
               THEN record_product_verification(vp, user_id, product_id) ELSE vp,
        ur |-> IF total_points > 0
               THEN update_user_rewards(ur, user_id, total_points, is_first_verification)
               ELSE ur,
        overflows |-> /\ total_points > 0
                      /\ update_user_rewards_overflows(ur, user_id, total_points,
                                                       is_first_verification)]

\* One call of rewards::calculate_verification_rewards; special_reward and
\* reward_description of the response tell whether the Option is Some;
\* maxCalls bounds the number of calls
Reward(user_id, product_id, status, maxCalls) ==
    LET r == calculate_verification_rewards(verified_products, user_rewards,
                                            user_id, product_id, status)
    IN /\ calls < maxCalls
       /\ calls' = calls + 1
       /\ \E wraps \in OverflowOutcomes(r.overflows) :
              IF wraps
              THEN /\ verified_products' = r.vp
                   /\ user_rewards' = r.ur
                   /\ last' = [NoCall EXCEPT !.op = "calculate_verification_rewards",
                                             !.caller = user_id,
                                             !.product_id = product_id,
                                             !.status = status, !.points = r.points,
                                             !.is_first = r.is_first_verification,
                                             !.special_reward = r.special_reward,
                                             !.reward_description = r.reward_description]
              ELSE /\ UNCHANGED <<verified_products, user_rewards>>
                   /\ last' = [NoCall EXCEPT !.op = "calculate_verification_rewards",
                                             !.caller = user_id,
                                             !.product_id = product_id,
                                             !.ok = FALSE, !.status = "Trap"]
       /\ UNCHANGED <<now, entropy, users, organizations, products, serial_numbers,
                      verifications, rate_limits, promotions, hash_desc, resellers, reviews, issued>>

\* A run of consecutive calculate_verification_rewards calls with the same
\* arguments for a product the user has verified, as long as it can be without
\* a counter leaving the range of u32: every call of the run returns
\* is_first_verification = false and adds the same points to total_points and
\* 1 to verification_count, so the run of n calls adds n times that. last' is
\* the response of the last call of the run; the run is not counted in calls.
RewardRepeatedly(user_id, product_id, status) ==
    LET points == BasePoints(status)
                  + (IF product_id \in promotions THEN SPECIAL_PROMOTION_POINTS ELSE 0)
        old == user_rewards[user_id]
        room_hi == U32_MAX.hi - old.total_points.hi
        room_lo == U32_MAX.lo - old.total_points.lo
        t == (room_hi % points) * U16_RADIX + room_lo
        n == [hi |-> room_hi \div points, lo |-> t \div points]
        count_lo == old.verification_count.lo + n.lo
        count_hi == old.verification_count.hi + n.hi + (count_lo \div U16_RADIX)
    IN /\ user_id \in DOMAIN user_rewards
       /\ user_id \in DOMAIN verified_products
       /\ product_id \in verified_products[user_id]
       /\ points > 0
       /\ n.hi > 0 \/ n.lo > 1
       /\ count_hi < U16_RADIX
       /\ user_rewards' =
              Put(user_rewards, user_id,
                  [old EXCEPT !.total_points =
                                  [hi |-> U32_MAX.hi, lo |-> U32_MAX.lo - (t % points)],
                              !.verification_count =
                                  [hi |-> count_hi, lo |-> count_lo % U16_RADIX]])
       /\ last' = [NoCall EXCEPT !.op = "calculate_verification_rewards",
                                 !.caller = user_id, !.product_id = product_id,
                                 !.status = status, !.points = points,
                                 !.special_reward = product_id \in promotions,
                                 !.reward_description = product_id \in promotions]
       /\ UNCHANGED <<now, entropy, users, organizations, products, serial_numbers,
                      verifications, rate_limits, verified_products, promotions,
                      hash_desc, resellers, reviews, issued, calls>>

\* rewards::add_special_promotion
add_special_promotion(product_id) ==
    /\ promotions' = promotions \cup {product_id}
    /\ last' = [NoCall EXCEPT !.op = "add_special_promotion"]
    /\ UNCHANGED <<now, entropy, users, organizations, products, serial_numbers,
                   verifications, rate_limits, user_rewards, verified_products,
                   hash_desc, resellers, reviews, issued, calls>>

\* rewards::remove_special_promotion
remove_special_promotion(product_id) ==
    /\ promotions' = promotions \ {product_id}
    /\ last' = [NoCall EXCEPT !.op = "remove_special_promotion"]
    /\ UNCHANGED <<now, entropy, users, organizations, products, serial_numbers,
                   verifications, rate_limits, user_rewards, verified_products,
                   hash_desc, resellers, reviews, issued, calls>>

\* ------------------------------------------------------------ verification
\* StableBTreeMap iteration order on generated principals: the byte order of
\* their SHA-256 digests, unrelated to the order of the times they come from
KeyBefore(a, b) == IF hash_desc THEN a > b ELSE a < b

HoldsSerial(product_id, serial_no) ==
    \E i \in 1..Len(serial_numbers[product_id]) :
        serial_numbers[product_id][i].serial_no = serial_no

\* The serial scan of verify_product_v2 and redeem_product_reward: the first
\* product in key order whose list holds the serial, NoId when none does
FindProductOfSerial(serial_no) ==
    LET holders == {p \in DOMAIN serial_numbers : HoldsSerial(p, serial_no)}
    IN IF holders = {} THEN NoId
       ELSE CHOOSE p \in holders : \A q \in holders : q = p \/ KeyBefore(p, q)

\* sn_vec.iter().find(|sn| sn.serial_no == serial_no) in the list of product_id
FindSerialRecord(product_id, serial_no) ==
    serial_numbers[product_id][SerialPosition(serial_numbers[product_id], serial_no)]

\* A simulated transfer that yields no transaction id.
SimulatedTxAbsent(verification_id) == NoTx

\* "simulated-tx-{verification id}"
SimulatedTx(verification_id) == <<"simulated-tx", verification_id>>

\* The outcome of hex::decode and Signature::from_slice on the unique code
DecodeCode(unique_code) ==
    CASE unique_code.kind = "nothex" -> "Malformed unique code"
      [] unique_code.kind = "badsig" -> "Invalid signature format"
      [] OTHER -> "signature"

\* verify_product_v2; maxCalls bounds the number of verify and redeem calls
verify_product_v2(caller, serial_no, print_version, unique_code, timestamp, maxCalls) ==
    LET call == [NoCall EXCEPT !.op = "verify_product_v2", !.caller = caller,
                               !.serial_no = serial_no, !.print_version = print_version,
                               !.unique_code = unique_code, !.timestamp = timestamp]
        product_id == FindProductOfSerial(serial_no)
        product_sn_record == FindSerialRecord(product_id, serial_no)
        rate_limit_result == record_verification_attempt(rate_limits, caller, product_id)
        print_version_from_storage == product_sn_record.print_version
        msg == ProductMessage(product_id, serial_no, print_version_from_storage)
        verification_status ==
            IF is_first_verification_for_user(verified_products, caller, product_id)
            THEN "FirstVerification" ELSE "MultipleVerification"
        rewards_result == calculate_verification_rewards(
                              verified_products, user_rewards, caller, product_id,
                              verification_status)
        verification ==
            [id |-> generate_unique_principal(now), product_id |-> product_id,
             serial_no |-> serial_no, print_version |-> print_version_from_storage,
             created_by |-> caller, status |-> verification_status,
             reward_claimed |-> FALSE, reward_transaction_id |-> NoTx]
        unchanged_ledger == UNCHANGED <<verifications, user_rewards, verified_products>>
    IN /\ calls < maxCalls
       /\ calls' = calls + 1
       /\ IF product_id = NoId
          THEN /\ last' = [call EXCEPT !.ok = FALSE, !.status = "NotFound"]
               /\ UNCHANGED rate_limits
               /\ unchanged_ledger
          ELSE IF ~rate_limit_result.admitted
          THEN /\ last' = [call EXCEPT !.ok = FALSE, !.status = "InvalidInput",
                                       !.product_id = product_id,
                                       !.message = RateLimitMessage(
                                                       rate_limit_result.reset_time)]
               /\ UNCHANGED rate_limits
               /\ unchanged_ledger
          ELSE IF product_id \notin DOMAIN products
          THEN /\ last' = [call EXCEPT !.ok = FALSE, !.status = "InternalError",
                                       !.product_id = product_id]
               /\ rate_limits' = rate_limit_result.rl
               /\ unchanged_ledger
          ELSE IF DecodeCode(unique_code) # "signature"
          THEN /\ last' = [call EXCEPT !.ok = FALSE, !.status = "InvalidInput",
                                       !.product_id = product_id,
                                       !.message = <<DecodeCode(unique_code)>>]
               /\ rate_limits' = rate_limit_result.rl
               /\ unchanged_ledger
          ELSE IF ~VerifySignature(products[product_id].public_key, msg, unique_code)
          THEN /\ last' = [call EXCEPT !.status = "Invalid", !.product_id = product_id]
               /\ rate_limits' = rate_limit_result.rl
               /\ unchanged_ledger
          ELSE \E wraps \in OverflowOutcomes(rewards_result.overflows) :
               IF wraps
               THEN /\ verified_products' = rewards_result.vp
                    /\ user_rewards' = rewards_result.ur
                    /\ verifications' = Put(verifications, product_id,
                                            Append(Get(verifications, product_id, <<>>),
                                                   verification))
                    /\ rate_limits' = record_successful_verification(
                                          rate_limit_result.rl, caller, product_id)
                    /\ last' = [call EXCEPT !.status = verification_status,
                                            !.product_id = product_id,
                                            !.points = rewards_result.points,
                                            !.is_first =
                                                rewards_result.is_first_verification]
               ELSE /\ last' = [call EXCEPT !.ok = FALSE, !.status = "Trap",
                                            !.product_id = product_id]
                    /\ UNCHANGED rate_limits
                    /\ unchanged_ledger
       /\ UNCHANGED <<now, entropy, users, organizations, products, serial_numbers,
                      promotions, hash_desc, resellers, reviews, issued>>

\* A claim mark that leaves the transaction id out.
MarkClaimedWithoutTx(verification, tx) ==
    [verification EXCEPT !.reward_claimed = TRUE]

\* A claim mark that also stamps the record with the product of the claim.
MarkClaimedRestamped(verification, tx) ==
    [verification EXCEPT !.reward_claimed = TRUE, !.reward_transaction_id = tx,
                         !.status = "MultipleVerification"]

\* verification_to_update after a simulated transfer: reward_claimed = true and
\* reward_transaction_id = Some(tx)
MarkClaimed(verification, tx) ==
    [verification EXCEPT !.reward_claimed = TRUE, !.reward_transaction_id = tx]

\* redeem_product_reward; maxCalls bounds the number of verify and redeem calls
redeem_product_reward(caller, serial_no, unique_code, maxCalls) ==
    LET call == [NoCall EXCEPT !.op = "redeem_product_reward", !.caller = caller,
                               !.serial_no = serial_no, !.unique_code = unique_code]
        product_id == FindProductOfSerial(serial_no)
        print_version_from_storage == FindSerialRecord(product_id, serial_no).print_version
        msg_to_verify == ProductMessage(product_id, serial_no, print_version_from_storage)
        stored_verifications == Get(verifications, product_id, <<>>)
        verification_index == VerificationPosition(stored_verifications, caller,
                                                   serial_no, print_version_from_storage)
        verification_to_update == stored_verifications[verification_index]
        rewards == calculate_verification_rewards(
                       verified_products, user_rewards, caller, product_id,
                       verification_to_update.status)
        simulated_tx_id == SimulatedTx(verification_to_update.id)
        failed(kind) ==
            /\ last' = [call EXCEPT !.ok = FALSE, !.status = kind,
                                    !.product_id = product_id]
            /\ UNCHANGED <<verifications, user_rewards, verified_products>>
    IN /\ calls < maxCalls
       /\ calls' = calls + 1
       /\ IF product_id = NoId THEN failed("InvalidInput")
          ELSE IF product_id \notin DOMAIN products THEN failed("InternalError")
          ELSE IF DecodeCode(unique_code) # "signature" THEN failed("InvalidInput")
          ELSE IF ~VerifySignature(products[product_id].public_key, msg_to_verify,
                                   unique_code)
          THEN failed("InvalidInput")
          ELSE IF verification_index = 0 THEN failed("NotFound")
          ELSE IF verification_to_update.reward_claimed
          THEN /\ last' = [call EXCEPT !.status = "already_claimed",
                                       !.product_id = product_id,
                                       !.tx = verification_to_update.reward_transaction_id]
               /\ UNCHANGED <<verifications, user_rewards, verified_products>>
          ELSE IF verification_to_update.status # "FirstVerification"
          THEN /\ last' = [call EXCEPT !.status = "not_first", !.product_id = product_id]
               /\ UNCHANGED <<verifications, user_rewards, verified_products>>
          ELSE \E wraps \in OverflowOutcomes(rewards.overflows) :
               IF ~wraps THEN failed("Trap")
               ELSE
               /\ verified_products' = rewards.vp
               /\ user_rewards' = rewards.ur
               /\ IF rewards.points = 0
                  THEN /\ verifications' =
                              Put(verifications, product_id,
                                  [stored_verifications EXCEPT ![verification_index] =
                                       [@ EXCEPT !.reward_claimed = TRUE]])
                       /\ last' = [call EXCEPT !.status = "no_points",
                                               !.product_id = product_id]
                  ELSE /\ verifications' =
                              Put(verifications, product_id,
                                  [stored_verifications EXCEPT ![verification_index] =
                                       MarkClaimed(@, simulated_tx_id)])
                       /\ last' = [call EXCEPT !.status = "success",
                                               !.product_id = product_id,
                                               !.points = rewards.points,
                                               !.tx = simulated_tx_id]
       /\ UNCHANGED <<now, entropy, users, organizations, products, serial_numbers,
                      rate_limits, promotions, hash_desc, resellers, reviews, issued>>

\* ------------------------------------------------------------------- users
\* UserRole
Roles == {"Admin", "BrandOwner", "Reseller"}

\* update_self_details: replaces the details of the caller; of detail_meta the
\* model keeps the principal of the entry "selectedOrgId", NoId when the input
\* has no such entry
update_self_details(caller, selected_org) ==
    LET call == [NoCall EXCEPT !.op = "update_self_details", !.caller = caller]
    IN /\ IF caller \in DOMAIN users
          THEN /\ users' = Put(users, caller,
                               [users[caller] EXCEPT !.selected_org = selected_org])
               /\ last' = [call EXCEPT !.status = "ok"]
          ELSE /\ last' = [call EXCEPT !.ok = FALSE, !.status = "NotFound"]
               /\ UNCHANGED users
       /\ UNCHANGED <<now, entropy, organizations, products, serial_numbers,
                      verifications, rate_limits, user_rewards, verified_products,
                      promotions, hash_desc, resellers, reviews, issued, calls>>

\* set_self_role. The test for the Admin role borrows USERS while the
\* function holds it mutably borrowed: the call panics and the message traps.
set_self_role(caller, role) ==
    LET call == [NoCall EXCEPT !.op = "set_self_role", !.caller = caller]
        user == users[caller]
        org_ids == IF /\ role = "BrandOwner"
                      /\ user.selected_org # NoId
                      /\ user.selected_org \in DOMAIN organizations
                   THEN user.org_ids \cup {user.selected_org}
                   ELSE user.org_ids
        status == IF caller \notin DOMAIN users THEN "NotFound"
                  ELSE IF user.user_role \notin {"None", "Admin"} THEN "Unauthorized"
                  ELSE IF role = "Admin" THEN "Trap"
                  ELSE "ok"
    IN /\ IF status = "ok"
          THEN /\ users' = Put(users, caller,
                               [user EXCEPT !.user_role = role, !.org_ids = org_ids])
               /\ last' = [call EXCEPT !.status = "ok"]
          ELSE /\ last' = [call EXCEPT !.ok = FALSE, !.status = status]
               /\ UNCHANGED users
       /\ UNCHANGED <<now, entropy, organizations, products, serial_numbers,
                      verifications, rate_limits, user_rewards, verified_products,
                      promotions, hash_desc, resellers, reviews, issued, calls>>

\* initialize_user_session; selected_role is a role or "None" (Option::None)
initialize_user_session(caller, selected_role) ==
    LET call == [NoCall EXCEPT !.op = "initialize_user_session", !.caller = caller]
        user == users[caller]
        with_role == IF user.user_role = "None"
                     THEN [user EXCEPT !.user_role = selected_role]
                     ELSE user
        status == IF caller \in DOMAIN users
                  THEN IF user.user_role = "None"
                       THEN IF selected_role = "None" THEN "InvalidInput" ELSE "ok"
                       ELSE IF selected_role # "None" /\ user.user_role # selected_role
                            THEN "Unauthorized"
                       ELSE "ok"
                  ELSE IF selected_role = "None" THEN "InvalidInput" ELSE "ok"
    IN /\ IF status # "ok"
          THEN /\ last' = [call EXCEPT !.ok = FALSE, !.status = status]
               /\ UNCHANGED users
          ELSE /\ last' = [call EXCEPT !.status = "ok"]
               /\ users' =
                      IF caller \notin DOMAIN users
                      THEN Put(users, caller,
                               [DefaultUser EXCEPT !.user_role = selected_role,
                                                   !.session_key = TRUE])
                      ELSE IF ~user.session_key
                      THEN Put(users, caller, [with_role EXCEPT !.session_key = TRUE])
                      ELSE users
       /\ UNCHANGED <<now, entropy, organizations, products, serial_numbers,
                      verifications, rate_limits, user_rewards, verified_products,
                      promotions, hash_desc, resellers, reviews, issued, calls>>

\* get_organization_private_key, a query: the private key of the organization
\* for a caller authorized with WriteOrganization
get_organization_private_key(caller, org_id) ==
    LET call == [NoCall EXCEPT !.op = "get_organization_private_key",
                               !.caller = caller]
        auth == authorize_for_organization(caller, org_id, "WriteOrganization")
    IN /\ last' = IF auth = "ok"
                  THEN [call EXCEPT !.status = "ok",
                                    !.private_key = organizations[org_id].private_key]
                  ELSE [call EXCEPT !.ok = FALSE, !.status = auth]
       /\ UNCHANGED <<now, entropy, users, organizations, products, serial_numbers,
                      verifications, rate_limits, user_rewards, verified_products,
                      promotions, hash_desc, resellers, reviews, issued, calls>>

\* ---------------------------------------------------------------- resellers
\* register: a user record without role for a caller that has none
register(caller) ==
    /\ users' = IF caller \in DOMAIN users THEN users
                ELSE Put(users, caller, DefaultUser)
    /\ last' = [NoCall EXCEPT !.op = "register", !.caller = caller]
    /\ UNCHANGED <<now, entropy, organizations, products, serial_numbers,
                   verifications, rate_limits, user_rewards, verified_products,
                   promotions, hash_desc, resellers, reviews, issued, calls>>

\* register_as_reseller_v2 with a non-empty name: a reseller of the
\* organization under an id generated from the time; the caller, who has no
\* role yet, becomes Reseller of that organization alone
register_as_reseller_v2(caller, org_id) ==
    LET call == [NoCall EXCEPT !.op = "register_as_reseller_v2", !.caller = caller]
        reseller_id == generate_unique_principal(now)
        status == IF caller \notin DOMAIN users THEN "NotFound"
                  ELSE IF users[caller].user_role # "None" THEN "Unauthorized"
                  ELSE IF org_id \notin DOMAIN organizations THEN "NotFound"
                  ELSE IF ~ValidPrivateKey(organizations[org_id].private_key)
                       THEN "InternalError"
                  ELSE "ok"
    IN /\ IF status = "ok"
          THEN /\ resellers' = Put(resellers, reseller_id, [org_id |-> org_id])
               /\ users' = Put(users, caller,
                               [users[caller] EXCEPT !.user_role = "Reseller",
                                                     !.org_ids = {org_id}])
               /\ last' = [call EXCEPT !.status = "ok", !.reseller_id = reseller_id]
          ELSE /\ last' = [call EXCEPT !.ok = FALSE, !.status = status]
               /\ UNCHANGED <<resellers, users>>
       /\ UNCHANGED <<now, entropy, organizations, products, serial_numbers,
                      verifications, rate_limits, user_rewards, verified_products,
                      promotions, hash_desc, reviews, issued, calls>>

\* format!("{}_{}_{}", reseller_id, timestamp, context)
ResellerMessage(reseller_id, timestamp, context) == <<reseller_id, timestamp, context>>

\* generate_reseller_unique_code_v2: the signature, under the private key of
\* the reseller's organization, of the reseller id, the current time and the
\* context; the canister keeps nothing of it
generate_reseller_unique_code_v2(reseller_id, context) ==
    LET call == [NoCall EXCEPT !.op = "generate_reseller_unique_code_v2",
                               !.reseller_id = reseller_id, !.context = context]
        reseller_org_id == resellers[reseller_id].org_id
        org_private_key == organizations[reseller_org_id].private_key
        status == IF reseller_id \notin DOMAIN resellers THEN "NotFound"
                  ELSE IF reseller_org_id \notin DOMAIN organizations THEN "NotFound"
                  ELSE IF ~ValidPrivateKey(org_private_key) THEN "InternalError"
                  ELSE "ok"
    IN /\ last' = IF status = "ok"
                  THEN [call EXCEPT !.status = "ok", !.timestamp = now,
                                    !.unique_code =
                                        SignCode(org_private_key,
                                                 ResellerMessage(reseller_id, now, context))]
                  ELSE [call EXCEPT !.ok = FALSE, !.status = status]
       /\ UNCHANGED <<now, entropy, users, organizations, products, serial_numbers,
                      verifications, rate_limits, user_rewards, verified_products,
                      promotions, hash_desc, resellers, reviews, issued, calls>>

\* The bytes hex::decode gives for the private_key of an organization: the 32
\* of SigningKey::to_bytes
SECRET_KEY_BYTES == 32

\* The lengths of the SEC1 encodings of a secp256k1 point: identity,
\* compressed or compact, uncompressed
ENCODED_POINT_BYTES == {1, 33, 65}

\* EncodedPoint::from_bytes succeeds on a byte string of that length; the tag
\* byte decides between the lengths
EncodedPointFromBytes(length) == length \in ENCODED_POINT_BYTES

\* The point a byte string of a private key would decode to: not the
\* verifying key of that private key
PointOfSecretBytes(private_key) == [pub |-> 0 - private_key]

\* A verification that remembers the request it answered last and refuses it
\* when it is presented again.
verify_reseller_v2_refusing_replay(reseller_id, timestamp, context, unique_code) ==
    LET call == [NoCall EXCEPT !.op = "verify_reseller_v2",
                               !.reseller_id = reseller_id, !.timestamp = timestamp,
                               !.context = context, !.unique_code = unique_code]
        reseller == resellers[reseller_id]
        organization == organizations[reseller.org_id]
        msg == ResellerMessage(reseller_id, timestamp, context)
        replayed == /\ last.op = "verify_reseller_v2"
                    /\ last.reseller_id = reseller_id
                    /\ last.timestamp = timestamp
                    /\ last.context = context
                    /\ last.unique_code = unique_code
        status ==
            IF replayed THEN "ReplayAttackDetected"
            ELSE IF now > timestamp + UNIQUE_CODE_EXPIRATION_SECONDS THEN "ExpiredCode"
            ELSE IF timestamp > now + 60 THEN "InvalidCode"
            ELSE IF reseller_id \notin DOMAIN resellers THEN "ResellerNotFound"
            ELSE IF reseller.org_id \notin DOMAIN organizations
                 THEN "OrganizationNotFound"
            ELSE IF ~ValidPrivateKey(organization.private_key) THEN "InternalError"
            ELSE IF ~EncodedPointFromBytes(SECRET_KEY_BYTES) THEN "InternalError"
            ELSE IF DecodeCode(unique_code) # "signature" THEN "InvalidCode"
            ELSE IF VerifySignature(PointOfSecretBytes(organization.private_key), msg,
                                    unique_code)
                 THEN "Success"
            ELSE "InvalidCode"
    IN /\ last' = [call EXCEPT !.status = status]
       /\ UNCHANGED <<now, entropy, users, organizations, products, serial_numbers,
                      verifications, rate_limits, user_rewards, verified_products,
                      promotions, hash_desc, resellers, reviews, issued, calls>>

\* verify_reseller_v2, a query. The verifying key is decoded from the
\* private_key of the organization.
verify_reseller_v2(reseller_id, timestamp, context, unique_code) ==
    LET call == [NoCall EXCEPT !.op = "verify_reseller_v2",
                               !.reseller_id = reseller_id, !.timestamp = timestamp,
                               !.context = context, !.unique_code = unique_code]
        reseller == resellers[reseller_id]
        organization == organizations[reseller.org_id]
        msg == ResellerMessage(reseller_id, timestamp, context)
        status ==
            IF now > timestamp + UNIQUE_CODE_EXPIRATION_SECONDS THEN "ExpiredCode"
            ELSE IF timestamp > now + 60 THEN "InvalidCode"
            ELSE IF reseller_id \notin DOMAIN resellers THEN "ResellerNotFound"
            ELSE IF reseller.org_id \notin DOMAIN organizations
                 THEN "OrganizationNotFound"
            ELSE IF ~ValidPrivateKey(organization.private_key) THEN "InternalError"
            ELSE IF ~EncodedPointFromBytes(SECRET_KEY_BYTES) THEN "InternalError"
            ELSE IF DecodeCode(unique_code) # "signature" THEN "InvalidCode"
            ELSE IF VerifySignature(PointOfSecretBytes(organization.private_key), msg,
                                    unique_code)
                 THEN "Success"
            ELSE "InvalidCode"
    IN /\ last' = [call EXCEPT !.status = status]
       /\ UNCHANGED <<now, entropy, users, organizations, products, serial_numbers,
                      verifications, rate_limits, user_rewards, verified_products,
                      promotions, hash_desc, resellers, reviews, issued, calls>>

\* ------------------------------------------------------------------ reviews
REVIEW_REFRESH_INTERVAL == 86400

IsReviewStamp(v) == v.key = "latest_product_review_generation"

\* should_generate_new_review: the first stamp of the metadata decides; a
\* product without one gets a review. api::time() is past the first interval
\* (the callers guarantee it), so the subtraction does not underflow.
should_generate_new_review(product) ==
    LET stamps == SelectSeq(product.metadata, IsReviewStamp)
    IN IF stamps = <<>> THEN TRUE
       ELSE stamps[1].value < now - REVIEW_REFRESH_INTERVAL

\* The sentiment text the OpenAI outcall returns.
ReviewContent == "sentiment"

\* update_product_with_review: the product value the call holds gets the two
\* entries and is inserted under its id.
update_product_with_review(product_id, product, review_content) ==
    Put(products, product_id,
        [product EXCEPT !.metadata =
            Append(Append(@, [key |-> "product_review", value |-> review_content]),
                   [key |-> "latest_product_review_generation", value |-> now])])

WithoutCall(s, i) == [j \in 1..(Len(s) - 1) |-> IF j < i THEN s[j] ELSE s[j + 1]]

MAX_HTTP_RETRIES == 3
RETRY_DELAY_SECONDS == 2

\* What an http_request await resumes with: a rejection (the Err arm), a
\* response whose status does not fit a u64, or a response with a status and
\* a body that decodes (UTF-8, and JSON for OpenAI) or does not.
NoStatus == 0
Rejection == [kind |-> "rejected", status |-> NoStatus, body_ok |-> FALSE]
StatusOutOfRange == [kind |-> "bad_status", status |-> NoStatus, body_ok |-> FALSE]
Response(status, body_ok) == [kind |-> "response", status |-> status, body_ok |-> body_ok]

\* The loop body of scrape_product_review and analyze_sentiment_with_openai
\* after the await of request number attempts: "ok" (return Ok), "error"
\* (return Err(ExternalApiError)) or "retry" (async_delay, then continue).
HttpAttemptResult(attempts, outcome) ==
    IF outcome.kind = "rejected"
    THEN IF attempts < MAX_HTTP_RETRIES THEN "retry" ELSE "error"
    ELSE IF outcome.kind = "bad_status" THEN "error"
    ELSE IF outcome.status >= 200 /\ outcome.status < 300
    THEN IF outcome.body_ok THEN "ok" ELSE "error"
    ELSE IF outcome.status >= 500 /\ attempts < MAX_HTTP_RETRIES THEN "retry"
    ELSE "error"

\* The suspended call after a "retry": it waits for the timer of
\* async_delay(RETRY_DELAY_SECONDS * attempts), having last seen outcome.
AwaitingTimer(call, outcome) ==
    [call EXCEPT !.waiting = "timer", !.delay = RETRY_DELAY_SECONDS * call.attempts,
                 !.response = outcome]

\* The first http_request of a loop is in flight.
AwaitingFirstRequest(call, stage) ==
    [call EXCEPT !.stage = stage, !.attempts = 1, !.waiting = "http", !.delay = 0,
                 !.response = Rejection]

\* generate_product_review_v2 up to its first await: the product is read
\* once, and the call is suspended on the first scraper outcall holding that
\* value. The scraper URL and the OpenAI key are configured. At most
\* maxPending calls are in flight and a product carries at most maxReviews
\* reviews.
generate_product_review_v2(product_id, maxPending, maxReviews) ==
    LET call == [NoCall EXCEPT !.op = "generate_product_review_v2",
                               !.product_id = product_id]
    IN /\ now >= REVIEW_REFRESH_INTERVAL
       /\ IF product_id \notin DOMAIN products
          THEN /\ last' = [call EXCEPT !.ok = FALSE, !.status = "NotFound"]
               /\ UNCHANGED reviews
          ELSE IF ~should_generate_new_review(products[product_id])
          THEN /\ last' = [call EXCEPT !.status = "ok"]
               /\ UNCHANGED reviews
          ELSE /\ Len(reviews) < maxPending
               /\ Len(products[product_id].metadata) < 2 * maxReviews
               /\ reviews' = Append(reviews,
                                    [product_id |-> product_id,
                                     product |-> products[product_id],
                                     stage |-> "scrape", attempts |-> 1,
                                     waiting |-> "http", delay |-> 0,
                                     response |-> Rejection])
               /\ last' = [call EXCEPT !.status = "Suspended"]
       /\ UNCHANGED <<now, entropy, users, organizations, products, serial_numbers,
                      verifications, rate_limits, user_rewards, verified_products,
                      promotions, hash_desc, resellers, issued, calls>>

\* An http_request of scrape_product_review returns to the i-th suspended
\* call: on a summary the call goes on to the first OpenAI outcall, on a
\* retry it waits for its timer, on an error it ends with ExternalApiError.
scrape_product_review(i, outcome) ==
    LET call == [NoCall EXCEPT !.op = "generate_product_review_v2",
                               !.product_id = reviews[i].product_id]
        result == HttpAttemptResult(reviews[i].attempts, outcome)
    IN /\ reviews[i].stage = "scrape"
       /\ reviews[i].waiting = "http"
       /\ CASE result = "ok" ->
               /\ reviews' = [reviews EXCEPT ![i] = AwaitingFirstRequest(@, "analyze")]
               /\ last' = [call EXCEPT !.status = "Suspended"]
            [] result = "retry" ->
               /\ reviews' = [reviews EXCEPT ![i] = AwaitingTimer(@, outcome)]
               /\ last' = [call EXCEPT !.status = "Suspended"]
            [] OTHER ->
               /\ reviews' = WithoutCall(reviews, i)
               /\ last' = [call EXCEPT !.ok = FALSE, !.status = "ExternalApiError"]
       /\ UNCHANGED <<now, entropy, users, organizations, products, serial_numbers,
                      verifications, rate_limits, user_rewards, verified_products,
                      promotions, hash_desc, resellers, issued, calls>>

\* An http_request of analyze_sentiment_with_openai returns to the i-th
\* suspended call: on a sentiment the call stores the review with
\* update_product_with_review, on a retry it waits for its timer, on an error
\* it ends with ExternalApiError.
analyze_sentiment_with_openai(i, outcome) ==
    LET call == [NoCall EXCEPT !.op = "generate_product_review_v2",
                               !.product_id = reviews[i].product_id]
        result == HttpAttemptResult(reviews[i].attempts, outcome)
    IN /\ reviews[i].stage = "analyze"
       /\ reviews[i].waiting = "http"
       /\ CASE result = "ok" ->
               /\ reviews' = WithoutCall(reviews, i)
               /\ products' = update_product_with_review(
                                  reviews[i].product_id, reviews[i].product,
                                  ReviewContent)
               /\ last' = [call EXCEPT !.status = "ok"]
            [] result = "retry" ->
               /\ reviews' = [reviews EXCEPT ![i] = AwaitingTimer(@, outcome)]
               /\ last' = [call EXCEPT !.status = "Suspended"]
               /\ UNCHANGED products
            [] OTHER ->
               /\ reviews' = WithoutCall(reviews, i)
               /\ last' = [call EXCEPT !.ok = FALSE, !.status = "ExternalApiError"]
               /\ UNCHANGED products
       /\ UNCHANGED <<now, entropy, users, organizations, serial_numbers,
                      verifications, rate_limits, user_rewards, verified_products,
                      promotions, hash_desc, resellers, issued, calls>>

\* utils::async_delay: the timer of the i-th suspended call fires, the loop
\* continues and issues its next http_request.
async_delay(i) ==
    /\ reviews[i].waiting = "timer"
    /\ reviews' = [reviews EXCEPT ![i].attempts = @ + 1, ![i].waiting = "http"]
    /\ last' = [NoCall EXCEPT !.op = "generate_product_review_v2",
                              !.product_id = reviews[i].product_id,
                              !.status = "Suspended"]
    /\ UNCHANGED <<now, entropy, users, organizations, products, serial_numbers,
                   verifications, rate_limits, user_rewards, verified_products,
                   promotions, hash_desc, resellers, issued, calls>>

\* reset_all_stable_storage: every collection is emptied; the codes of the
\* removed serials are no longer tracked
reset_all_stable_storage ==
    /\ organizations' = EmptyMap
    /\ products' = EmptyMap
    /\ users' = EmptyMap
    /\ serial_numbers' = EmptyMap
    /\ verifications' = EmptyMap
    /\ rate_limits' = EmptyMap
    /\ user_rewards' = EmptyMap
    /\ verified_products' = EmptyMap
    /\ promotions' = {}
    /\ issued' = EmptyMap
    /\ resellers' = EmptyMap
    /\ last' = [NoCall EXCEPT !.op = "reset_all_stable_storage"]
    /\ UNCHANGED <<now, entropy, hash_desc, reviews, calls>>

\* ------------------------------------------------------------------ inputs
\* Unique codes a caller presents for one serial number: the codes printed for
\* it under any product, and the three codes nobody printed
CodeArgsFor(serial_no) ==
    UNION {Range(issued[k]) : k \in {x \in DOMAIN issued : x[2] = serial_no}}
        \cup {NotHexCode, BadSigCode, ForgedCode}

\* Well-formed signatures a caller presents for one serial number
SignatureArgsFor(serial_no) == {u \in CodeArgsFor(serial_no) : u.kind = "sig"}

\* The codes of the two most recent prints of a serial number
RecentCodesFor(serial_no) ==
    UNION {{issued[k][i] : i \in {j \in 1..Len(issued[k]) : j + 2 > Len(issued[k])}} :
           k \in {x \in DOMAIN issued : x[2] = serial_no}}

\* The print_version stored for the serial a scan resolves, 0 for an unknown serial
StoredVersion(serial_no) ==
    IF FindProductOfSerial(serial_no) = NoId THEN 0
    ELSE FindSerialRecord(FindProductOfSerial(serial_no), serial_no).print_version

\* print_version values a request asserts: the stored one and the one after it
VersionArgsFor(serial_no) ==
    {StoredVersion(serial_no), saturating_add(StoredVersion(serial_no), 1)}

\* Client timestamps a request carries: none, the current time, and a time
\* two rate-limit windows ahead of the current time
TimestampArgs == {NoTimestamp, now, now + 2 * WINDOW_DURATION_SECONDS}

\* ---------------------------------------------------------- specifications
\* Every operation on one organization, with one verification or redemption
\* request; requests assert the stored version and carry no timestamp.
Next ==
    \/ Tick(1, MaxTime)
    \/ \E c \in Owners : register_as_organization(c, 1)
    \/ \E c \in Owners, o \in DOMAIN organizations : create_product(c, o, MaxPrints)
    \/ \E c \in Owners, p \in DOMAIN products, o \in DOMAIN organizations :
           update_product(c, p, o)
    \/ \E c \in Owners, p \in DOMAIN products : create_product_serial_number(c, p)
    \/ \E c \in Owners, p \in DOMAIN products, s \in StoredSerialNos :
           update_product_serial_number(c, p, s)
    \/ \E c \in Owners, p \in ProductArgs, s \in SerialArgs :
           print_product_serial_number(c, p, s, MaxPrints)
    \/ \E c \in Customers, s \in SerialArgs : \E u \in CodeArgsFor(s) :
           verify_product_v2(c, s, StoredVersion(s), u, NoTimestamp, 1)
    \/ \E c \in Customers, s \in SerialArgs : \E u \in CodeArgsFor(s) :
           redeem_product_reward(c, s, u, 1)
    \/ reset_all_stable_storage

Spec == Init /\ [][Next]_vars

\* Without create_product_serial_number no serial number is held by two
\* products and the scan order of the serial map is immaterial: one order.
InitAscending == Init /\ ~hash_desc

\* Verification requests with every asserted version, code and timestamp.
NextReq ==
    \/ Tick(1, MaxTime)
    \/ \E c \in Owners : register_as_organization(c, 1)
    \/ \E c \in Owners, o \in DOMAIN organizations : create_product(c, o, MaxPrints)
    \/ \E c \in Owners, p \in DOMAIN products, s \in StoredSerialNos :
           print_product_serial_number(c, p, s, MaxPrints)
    \/ \E c \in Customers, s \in StoredSerialNos :
           \E v \in VersionArgsFor(s), u \in CodeArgsFor(s), t \in TimestampArgs :
               verify_product_v2(c, s, v, u, t, MaxCalls)

SpecReq == InitAscending /\ [][NextReq]_vars

\* Several organizations, registered at different times, and products that
\* move between them.
NextMove ==
    \/ Tick(1, MaxTime)
    \/ \E c \in Owners :
           /\ generate_unique_principal(now) \notin DOMAIN organizations
           /\ register_as_organization(c, MaxKeys)
    \/ \E c \in Owners, o \in DOMAIN organizations : create_product(c, o, MaxPrints)
    \/ \E c \in Owners, p \in DOMAIN products, o \in DOMAIN organizations :
           update_product(c, p, o)
    \/ \E c \in Owners, p \in DOMAIN products, s \in StoredSerialNos :
           print_product_serial_number(c, p, s, MaxPrints)
    \/ \E c \in Customers, s \in StoredSerialNos : \E u \in CodeArgsFor(s) :
           verify_product_v2(c, s, StoredVersion(s), u, NoTimestamp, MaxCalls)

SpecMove == InitAscending /\ [][NextMove]_vars

\* One serial printed until its u8 print_version is exhausted, and once more.
NextSat ==
    \/ \E c \in Owners : register_as_organization(c, 1)
    \/ \E c \in Owners, o \in DOMAIN organizations : create_product(c, o, 1)
    \/ \E c \in Owners, p \in DOMAIN products, s \in StoredSerialNos :
           print_product_serial_number(c, p, s, U8_MAX + SatExtra)
    \/ \E c \in Customers, s \in StoredSerialNos : \E u \in RecentCodesFor(s) :
           verify_product_v2(c, s, StoredVersion(s), u, NoTimestamp, 1)

SpecSat == InitAscending /\ [][NextSat]_vars

\* Products, prints of their serials, and the verification and redemption
\* requests of a customer.
NextLedger ==
    \/ Tick(1, MaxTime)
    \/ \E c \in Owners : register_as_organization(c, 1)
    \/ \E c \in Owners, o \in DOMAIN organizations : create_product(c, o, MaxPrints)
    \/ \E c \in Owners, p \in DOMAIN products, s \in StoredSerialNos :
           print_product_serial_number(c, p, s, MaxPrints)
    \/ \E c \in Customers, s \in StoredSerialNos : \E u \in SignatureArgsFor(s) :
           verify_product_v2(c, s, StoredVersion(s), u, NoTimestamp, MaxCalls)
    \/ \E c \in Customers, s \in StoredSerialNos : \E u \in SignatureArgsFor(s) :
           redeem_product_reward(c, s, u, MaxCalls)

SpecLedger == InitAscending /\ [][NextLedger]_vars

\* Product ids handed to the rate limiter, which accepts any principal
LimiterProducts == {generate_unique_principal(0), UnknownId}

\* The times of two rate-limit windows: the last instant of a window and the
\* first instant after it
LimiterMaxTime == 2 * (WINDOW_DURATION_SECONDS + 1)

\* The rate limiter on its own: attempts, successes and queries of a customer
\* while time passes through the end of a window.
NextLimiter ==
    \/ Tick(WINDOW_DURATION_SECONDS, LimiterMaxTime)
    \/ Tick(WINDOW_DURATION_SECONDS + 1, LimiterMaxTime)
    \/ \E c \in Customers, p \in LimiterProducts : RecordAttempt(c, p, MaxAttempts)
    \/ \E c \in Customers, p \in LimiterProducts : RecordSuccess(c, p)
    \/ \E c \in Customers, p \in LimiterProducts : get_verification_rate_limit(c, p)

SpecLimiter == InitAscending /\ [][NextLimiter]_vars

\* One product and the verification requests of a customer, with every kind
\* of code, while time passes from one rate-limit window to the next; the
\* rate limiter also records successes on its own.
NextRate ==
    \/ Tick(WINDOW_DURATION_SECONDS + 1, LimiterMaxTime)
    \/ \E c \in Customers, p \in LimiterProducts : RecordSuccess(c, p)
    \/ \E c \in Owners : register_as_organization(c, 1)
    \/ \E c \in Owners, o \in DOMAIN organizations : create_product(c, o, 1)
    \/ \E c \in Customers, s \in StoredSerialNos : \E u \in CodeArgsFor(s) :
           verify_product_v2(c, s, StoredVersion(s), u, NoTimestamp, MaxAttempts)

SpecRate == InitAscending /\ [][NextRate]_vars

\* ProductVerificationStatus
Statuses == {"FirstVerification", "MultipleVerification", "Invalid"}

\* Product ids handed to the reward engine, which accepts any principal
RewardProducts == {generate_unique_principal(0), UnknownId}

\* One product, promotions that come and go, the verification and redemption
\* requests of a customer, and reward calculations with every status.
NextRewards ==
    \/ \E c \in Owners : register_as_organization(c, 1)
    \/ \E c \in Owners, o \in DOMAIN organizations : create_product(c, o, 1)
    \/ \E p \in RewardProducts : add_special_promotion(p)
    \/ \E p \in RewardProducts : remove_special_promotion(p)
    \/ \E c \in Customers, p \in RewardProducts, st \in Statuses :
           Reward(c, p, st, MaxCalls)
    \/ \E c \in Customers, s \in StoredSerialNos : \E u \in SignatureArgsFor(s) :
           verify_product_v2(c, s, StoredVersion(s), u, NoTimestamp, MaxCalls)
    \/ \E c \in Customers, s \in StoredSerialNos : \E u \in SignatureArgsFor(s) :
           redeem_product_reward(c, s, u, MaxCalls)

SpecRewards == InitAscending /\ [][NextRewards]_vars

\* The reward engine on its own: two single reward calculations and long runs
\* of them, which take the counters of a user to the end of their range.
NextCounters ==
    \/ \E p \in RewardProducts : add_special_promotion(p)
    \/ \E p \in RewardProducts : remove_special_promotion(p)
    \/ \E c \in Customers, p \in RewardProducts, st \in Statuses :
           Reward(c, p, st, 2)
    \/ \E c \in Customers, p \in RewardProducts, st \in Statuses :
           RewardRepeatedly(c, p, st)

SpecCounters == InitAscending /\ [][NextCounters]_vars

\* One product whose serial is reprinted, the verification requests of a
\* customer with signatures, and redemption requests with every kind of code.
NextRedeem ==
    \/ \E c \in Owners : register_as_organization(c, 1)
    \/ \E c \in Owners, o \in DOMAIN organizations : create_product(c, o, 1)
    \/ \E c \in Owners, p \in DOMAIN products, s \in StoredSerialNos :
           print_product_serial_number(c, p, s, MaxPrints)
    \/ \E c \in Customers, s \in StoredSerialNos : \E u \in SignatureArgsFor(s) :
           verify_product_v2(c, s, StoredVersion(s), u, NoTimestamp, MaxCalls)
    \/ \E c \in Customers, s \in SerialArgs : \E u \in CodeArgsFor(s) :
           redeem_product_reward(c, s, u, MaxCalls)

SpecRedeem == InitAscending /\ [][NextRedeem]_vars

\* Callers that register as resellers
Applicants == {"u2"}

\* Contexts a reseller code is generated and presented with
Contexts == {"X", "Y"}

\* Reseller ids a caller passes
ResellerArgs == (DOMAIN resellers) \cup {UnknownId}

\* Unique codes a caller presents for a reseller: the code of the last
\* response or request, and two codes nobody generated
ResellerCodeArgs == {last.unique_code, NotHexCode, ForgedCode}

\* Timestamps a caller presents for a reseller: the one of the last response
\* or request, the time the canister started, the current time, a time more
\* than a minute ahead
ResellerTimestampArgs == ({last.timestamp} \ {NoTimestamp}) \cup {0, now, now + 61}

\* The times of the reseller checks: the first instant after 300 units of
\* api::time, and one second
ResellerMaxTime == NANOS_PER_SECOND + UNIQUE_CODE_EXPIRATION_SECONDS + 1

\* One organization, its resellers, the codes generated for them and their
\* verification with every reseller id, timestamp, context and code.
NextReseller ==
    \/ Tick(UNIQUE_CODE_EXPIRATION_SECONDS + 1, UNIQUE_CODE_EXPIRATION_SECONDS + 1)
    \/ Tick(NANOS_PER_SECOND, ResellerMaxTime)
    \/ \E c \in Owners : register_as_organization(c, 1)
    \/ \E c \in Applicants : register(c)
    \/ \E c \in Applicants, o \in OrgArgs : register_as_reseller_v2(c, o)
    \/ \E r \in ResellerArgs, x \in Contexts : generate_reseller_unique_code_v2(r, x)
    \/ \E r \in ResellerArgs, t \in ResellerTimestampArgs, x \in Contexts,
          u \in ResellerCodeArgs : verify_reseller_v2(r, t, x, u)

SpecReseller == InitAscending /\ [][NextReseller]_vars

\* Roles a caller selects: a role, or none
RoleArgs == Roles \cup {"None"}

\* The first key drawn from the RNG: in the behaviours of SpecAccess, the key
\* of the organization the owner registers
OwnerKey == 1

\* An owner registers an organization and does nothing else; an applicant
\* then makes every call open to a principal without a grant.
NextAccess ==
    \/ Tick(1, MaxTime)
    \/ \E c \in Owners : entropy = 0 /\ register_as_organization(c, 1)
    \/ \E c \in Applicants : entropy > 0 /\ register_as_organization(c, MaxKeys)
    \/ \E c \in Applicants : register(c)
    \/ \E c \in Applicants, o \in OrgArgs \cup {NoId} : update_self_details(c, o)
    \/ \E c \in Applicants, r \in Roles : set_self_role(c, r)
    \/ \E c \in Applicants, r \in RoleArgs : initialize_user_session(c, r)
    \/ \E c \in Applicants, o \in OrgArgs : register_as_reseller_v2(c, o)
    \/ \E c \in Applicants, o \in OrgArgs : get_organization_private_key(c, o)

SpecAccess == InitAscending /\ [][NextAccess]_vars

MaxReviews == 2
MaxPending == 1

\* Statuses at the edges of the classes the loops tell apart, below, inside
\* and above the 5xx range.
StatusArgs == {200, 404, 500, 599, 600}
HttpOutcomes ==
    {Rejection, StatusOutOfRange} \cup
    {Response(status, body_ok) : status \in StatusArgs, body_ok \in BOOLEAN}
ReviewMaxTime == 2 * REVIEW_REFRESH_INTERVAL + 1

\* Reviews: two organizations of one owner registered at successive instants,
\* a product created, moved and reviewed; the review of a later day is a
\* refresh.
NextReview ==
    \/ Tick(REVIEW_REFRESH_INTERVAL, ReviewMaxTime)
    \/ now = REVIEW_REFRESH_INTERVAL /\ Tick(1, ReviewMaxTime)
    \/ \E c \in Owners :
           /\ now >= REVIEW_REFRESH_INTERVAL
           /\ generate_unique_principal(now) \notin DOMAIN organizations
           /\ register_as_organization(c, MaxKeys)
    \/ \E c \in Owners, o \in DOMAIN organizations :
           products = EmptyMap /\ create_product(c, o, MaxPrints)
    \/ \E c \in Owners, p \in DOMAIN products, o \in DOMAIN organizations :
           update_product(c, p, o)
    \/ \E p \in ProductArgs : generate_product_review_v2(p, MaxPending, MaxReviews)
    \/ \E i \in DOMAIN reviews, r \in HttpOutcomes : scrape_product_review(i, r)
    \/ \E i \in DOMAIN reviews, r \in HttpOutcomes : analyze_sentiment_with_openai(i, r)
    \/ \E i \in DOMAIN reviews : async_delay(i)

SpecReview == InitAscending /\ [][NextReview]_vars

\* An outcall or a timer of a suspended review call completes.
ReviewResumes ==
    \/ \E i \in DOMAIN reviews, r \in HttpOutcomes : scrape_product_review(i, r)
    \/ \E i \in DOMAIN reviews, r \in HttpOutcomes : analyze_sentiment_with_openai(i, r)
    \/ \E i \in DOMAIN reviews : async_delay(i)

\* Reviews when every outcall and every timer eventually completes.
SpecReviewFair == SpecReview /\ WF_vars(ReviewResumes)

\* Verification requests of a customer for stored and unknown serials with
\* every kind of code, through the end of a rate-limit window.
NextFrame ==
    \/ Tick(WINDOW_DURATION_SECONDS + 1, LimiterMaxTime)
    \/ \E c \in Owners : register_as_organization(c, 1)
    \/ \E c \in Owners, o \in DOMAIN organizations : create_product(c, o, 1)
    \/ \E c \in Customers, s \in SerialArgs : \E u \in CodeArgsFor(s) :
           verify_product_v2(c, s, StoredVersion(s), u, NoTimestamp, MaxAttempts)

SpecFrame == InitAscending /\ [][NextFrame]_vars

\* Verifications and redemptions of one product by two callers in any order.
NextCallers ==
    \/ \E c \in Owners : register_as_organization(c, 1)
    \/ \E c \in Owners, o \in DOMAIN organizations : create_product(c, o, 1)
    \/ \E c \in Owners, p \in DOMAIN products, s \in StoredSerialNos :
           print_product_serial_number(c, p, s, MaxPrints)
    \/ \E c \in Callers, s \in StoredSerialNos : \E u \in SignatureArgsFor(s) :
           verify_product_v2(c, s, StoredVersion(s), u, NoTimestamp, MaxCalls)
    \/ \E c \in Callers, s \in StoredSerialNos : \E u \in SignatureArgsFor(s) :
           redeem_product_reward(c, s, u, MaxCalls)

SpecCallers == InitAscending /\ [][NextCallers]_vars

\* One call more than a rate-limit window admits.
\* The product a promotion is put on: the one created at time 0
PromoProducts == {generate_unique_principal(0)}

\* Products created at different times, a promotion that comes and goes, and
\* the verification and redemption requests of a customer.
NextPromo ==
    \/ Tick(1, MaxTime)
    \/ \E c \in Owners : register_as_organization(c, 1)
    \/ \E c \in Owners, o \in DOMAIN organizations : create_product(c, o, MaxPrints)
    \/ \E p \in PromoProducts : add_special_promotion(p)
    \/ \E p \in PromoProducts : remove_special_promotion(p)
    \/ \E c \in Customers, s \in StoredSerialNos : \E u \in SignatureArgsFor(s) :
           verify_product_v2(c, s, StoredVersion(s), u, NoTimestamp, MaxCalls)
    \/ \E c \in Customers, s \in StoredSerialNos : \E u \in SignatureArgsFor(s) :
           redeem_product_reward(c, s, u, MaxCalls)

SpecPromo == InitAscending /\ [][NextPromo]_vars

MaxBrute == MAX_ATTEMPTS_PER_WINDOW + 1

\* Guessing codes through redemption: one customer, one product, and every
\* counted call a redeem_product_reward of a stored serial with a well-formed
\* code, all of them at times inside the window that starts at time 0.
NextBrute ==
    \/ Tick(1, MaxTime)
    \/ \E c \in Owners : register_as_organization(c, 1)
    \/ \E c \in Owners, o \in DOMAIN organizations : create_product(c, o, 1)
    \/ \E c \in Owners, p \in DOMAIN products, s \in StoredSerialNos :
           print_product_serial_number(c, p, s, MaxPrints)
    \/ \E c \in Customers, s \in StoredSerialNos : \E u \in SignatureArgsFor(s) :
           redeem_product_reward(c, s, u, MaxBrute)

SpecBrute == InitAscending /\ [][NextBrute]_vars

\* -------------------------------------------------------------- properties
\* The step is a verify_product_v2 call, a redeem_product_reward call, a
\* print_product_serial_number call; last' is its response.
VerifyStep == calls' = calls + 1 /\ last'.op = "verify_product_v2"

RedeemStep == calls' = calls + 1 /\ last'.op = "redeem_product_reward"

PrintStep == now' = now /\ last'.op = "print_product_serial_number"

\* A verification response that accepts the code
Accepted(response) ==
    response.ok /\ response.status \in {"FirstVerification", "MultipleVerification"}

\* The products whose list holds the serial number
Holders(serial_no) == {p \in DOMAIN serial_numbers : HoldsSerial(p, serial_no)}

\* The code is a signature, under the key stored on the product the scan
\* resolves, of the message built from the stored print_version
SignatureMatches(serial_no, unique_code) ==
    LET p == FindProductOfSerial(serial_no)
    IN /\ p \in DOMAIN products
       /\ unique_code.kind = "sig"
       /\ unique_code.k = products[p].public_key.pub
       /\ unique_code.m = <<p, serial_no, StoredVersion(serial_no)>>

\* The caller has attempts left in the rate-limit window of the product
NotRateLimited(caller, serial_no) ==
    record_verification_attempt(rate_limits, caller,
                                FindProductOfSerial(serial_no)).admitted

\* Codes returned by prints of the serial number that a later print followed
EarlierCodes(serial_no) ==
    UNION {{issued[k][i] : i \in 1..(Len(issued[k]) - 1)} :
           k \in {x \in DOMAIN issued : x[2] = serial_no}}

StaleCodeStep ==
    /\ VerifyStep /\ last'.unique_code \in EarlierCodes(last'.serial_no)
          => ~Accepted(last')
    /\ RedeemStep /\ last'.unique_code \in EarlierCodes(last'.serial_no)
          => ~(last'.ok /\ last'.status = "success")

\* C1: once a later print of a serial has completed, no code returned by an
\* earlier print of that serial is accepted again: verify_product_v2 does not
\* answer FirstVerification or MultipleVerification for it and
\* redeem_product_reward does not answer success for it.
C1_StaleCodeNeverAccepted == [][StaleCodeStep]_vars

CurrentCodeStep ==
    (/\ VerifyStep
     /\ NotRateLimited(last'.caller, last'.serial_no)
     /\ \E p \in Holders(last'.serial_no) :
           /\ <<p, last'.serial_no>> \in DOMAIN issued
           /\ last'.unique_code =
                  issued[<<p, last'.serial_no>>][Len(issued[<<p, last'.serial_no>>])])
        => Accepted(last')

\* C2: the code returned by the print that set the stored print_version of a
\* serial is accepted by verify_product_v2 for a caller that is not rate
\* limited, whatever other operations ran since, update_product calls that
\* change the product's org_id included.
C2_CurrentCodeAccepted == [][CurrentCodeStep]_vars

AssertedVersionStep ==
    (/\ VerifyStep
     /\ FindProductOfSerial(last'.serial_no) # NoId
     /\ SignatureMatches(last'.serial_no, last'.unique_code)
     /\ last'.print_version # StoredVersion(last'.serial_no))
        => last'.ok /\ last'.status = "Invalid"

\* C3: verify_product_v2 answers Invalid when the print_version asserted in
\* the request differs from the stored print_version, even if the unique_code
\* is a correct signature for the stored version.
C3_AssertedVersionChecked == [][AssertedVersionStep]_vars

\* C4: after n successful prints of a serial created at print_version 0 the
\* stored print_version is n and the n codes returned are pairwise distinct.
C4_VersionCountsPrints ==
    \A k \in DOMAIN issued :
        (k[1] \in DOMAIN serial_numbers /\ HoldsSerial(k[1], k[2]))
            => /\ FindSerialRecord(k[1], k[2]).print_version = Len(issued[k])
               /\ Cardinality(Range(issued[k])) = Len(issued[k])

\* One step seen from the serial records: a record present before and after
\* keeps its serial number, its print_version does not decrease and changes
\* only in a create_product or print_product_serial_number call; a record that
\* appears has print_version 0, or 1 when create_product printed it at once.
SerialVersionStep ==
    \A p \in DOMAIN serial_numbers' :
        \A i \in 1..Len(serial_numbers'[p]) :
            LET new == serial_numbers'[p][i]
                printing == last'.op \in {"create_product", "print_product_serial_number"}
            IN IF p \in DOMAIN serial_numbers /\ i <= Len(serial_numbers[p])
               THEN LET old == serial_numbers[p][i]
                    IN /\ new.serial_no = old.serial_no
                       /\ new.print_version >= old.print_version
                       /\ new.print_version # old.print_version => printing
               ELSE \/ new.print_version = 0
                    \/ last'.op = "create_product" /\ new.print_version = 1

\* C5: print_version starts at 0, never decreases and is changed only by a
\* print (the initial print of create_product, print_product_serial_number);
\* create_product_serial_number, update_product_serial_number, verification
\* and redemption leave every existing print_version as it was.
C5_PrintVersionMonotone == [][SerialVersionStep]_vars

\* A serial printed twice is rewritten by update_product_serial_number and
\* still holds version 2.
C5_Witness ==
    /\ last.op = "update_product_serial_number"
    /\ last.ok
    /\ \E p \in DOMAIN serial_numbers : \E i \in 1..Len(serial_numbers[p]) :
           serial_numbers[p][i].print_version = 2

AllOrNothingStep ==
    PrintStep =>
        IF last'.ok
        THEN /\ last'.product_id \in DOMAIN serial_numbers'
             /\ \E i \in 1..Len(serial_numbers'[last'.product_id]) :
                   LET rec == serial_numbers'[last'.product_id][i]
                   IN /\ rec.serial_no = last'.serial_no
                      /\ \A j \in 1..(i - 1) :
                            serial_numbers'[last'.product_id][j].serial_no
                                # last'.serial_no
                      /\ rec.print_version = last'.print_version
        ELSE serial_numbers' = serial_numbers

\* C6: print is all-or-nothing: when print_product_serial_number returns an
\* error no stored print_version has changed, and when it returns a result the
\* print_version of the result is the one stored for that serial.
C6_PrintAllOrNothing == [][AllOrNothingStep]_vars

\* A print was refused while a serial printed twice is stored.
C6_Witness ==
    /\ last.op = "print_product_serial_number"
    /\ ~last.ok
    /\ \E p \in DOMAIN serial_numbers : \E i \in 1..Len(serial_numbers[p]) :
           serial_numbers[p][i].print_version = 2

MalformedCodeStep ==
    (/\ VerifyStep
     /\ FindProductOfSerial(last'.serial_no) \in DOMAIN products
     /\ NotRateLimited(last'.caller, last'.serial_no)
     /\ last'.unique_code.kind \in {"nothex", "badsig"})
        => last'.ok /\ last'.status = "Invalid"

\* C7: for a known serial, a unique_code that is not hex or does not parse as
\* a signature makes verify_product_v2 return a successful response with
\* status Invalid, not an ApiError.
C7_MalformedCodeIsInvalid == [][MalformedCodeStep]_vars

StaleTimestampStep ==
    (/\ VerifyStep
     /\ FindProductOfSerial(last'.serial_no) # NoId
     /\ SignatureMatches(last'.serial_no, last'.unique_code)
     /\ last'.timestamp # NoTimestamp
     /\ (last'.timestamp - now > 300 \/ now - last'.timestamp > 300))
        => last'.ok /\ last'.status = "Invalid"

\* C8: a verify request whose client timestamp differs from the current time
\* by more than 300 seconds is answered Invalid, even when the unique_code is
\* a correct signature for the stored version.
C8_StaleTimestampRejected == [][StaleTimestampStep]_vars

ClassifyAndRecordStep ==
    LET c == last'.caller
        s == last'.serial_no
        p == FindProductOfSerial(s)
        before == IF p \in DOMAIN verifications THEN verifications[p] ELSE <<>>
        status == IF c \in DOMAIN verified_products /\ p \in verified_products[c]
                  THEN "MultipleVerification" ELSE "FirstVerification"
    IN (/\ VerifyStep
        /\ p # NoId
        /\ NotRateLimited(c, s)
        /\ SignatureMatches(s, last'.unique_code))
           => /\ last'.ok
              /\ last'.status = status
              /\ DOMAIN verifications' = DOMAIN verifications \cup {p}
              /\ \A q \in DOMAIN verifications \ {p} :
                    verifications'[q] = verifications[q]
              /\ Len(verifications'[p]) = Len(before) + 1
              /\ SubSeq(verifications'[p], 1, Len(before)) = before
              /\ LET v == verifications'[p][Len(before) + 1]
                 IN /\ v.created_by = c
                    /\ v.product_id = p
                    /\ v.serial_no = s
                    /\ v.print_version = StoredVersion(s)
                    /\ v.status = status
                    /\ v.reward_claimed = FALSE
                    /\ v.reward_transaction_id = NoTx

\* C9: when the signature verifies and the caller is not rate limited,
\* verify_product_v2 reports FirstVerification iff the product was absent from
\* the caller's verified products before the call, MultipleVerification
\* otherwise, and appends exactly one ProductVerification to the product's
\* list: created_by the caller, the stored print_version, that status,
\* reward_claimed false and no reward_transaction_id.
C9_ClassifyAndRecord == [][ClassifyAndRecordStep]_vars

\* The caller verified a product for the second time.
C9_Witness ==
    /\ last.op = "verify_product_v2"
    /\ last.ok
    /\ last.status = "MultipleVerification"
    /\ last.product_id \in DOMAIN verifications
    /\ Len(verifications[last.product_id]) = 2
    /\ verifications[last.product_id][1].status = "FirstVerification"
    /\ verifications[last.product_id][2].status = "MultipleVerification"

\* The serial number names one record of one product, which has no promotion
ScenarioSerial(p, s) ==
    /\ Holders(s) = {p}
    /\ Cardinality({i \in 1..Len(serial_numbers[p]) :
                       serial_numbers[p][i].serial_no = s}) = 1
    /\ p \in DOMAIN products
    /\ p \notin promotions

EndToEndStep ==
    /\ \A p \in DOMAIN serial_numbers :
          (/\ PrintStep
           /\ last'.ok
           /\ last'.product_id = p
           /\ ScenarioSerial(p, last'.serial_no))
              => LET codes == IssuedFor(p, last'.serial_no)
                 IN /\ StoredVersion(last'.serial_no) = 0
                       => last'.print_version = 1 /\ codes = <<>>
                    /\ StoredVersion(last'.serial_no) = 1
                       => /\ last'.print_version = 2
                          /\ Len(codes) = 1
                          /\ last'.unique_code # codes[1]
    /\ \A p \in DOMAIN serial_numbers :
          (/\ VerifyStep
           /\ ScenarioSerial(p, last'.serial_no)
           /\ NotRateLimited(last'.caller, last'.serial_no)
           /\ IssuedFor(p, last'.serial_no) # <<>>)
              => LET codes == IssuedFor(p, last'.serial_no)
                     verified == /\ last'.caller \in DOMAIN verified_products
                                 /\ p \in verified_products[last'.caller]
                     version == StoredVersion(last'.serial_no)
                 IN /\ (version = 1 /\ last'.unique_code = codes[1] /\ ~verified)
                       => /\ last'.ok
                          /\ last'.status = "FirstVerification"
                          /\ last'.points = 100
                    /\ (version = 2 /\ last'.unique_code = codes[1])
                       => last'.ok /\ last'.status = "Invalid" /\ last'.points = 0
                    /\ (version = 2 /\ Len(codes) = 2 /\ last'.unique_code = codes[2]
                        /\ verified)
                       => /\ last'.ok
                          /\ last'.status = "MultipleVerification"
                          /\ last'.points = 10

\* C10: for one user, a product without promotion and a serial created at
\* version 0: the first print gives version 1 and a code C1; verifying C1 gives
\* FirstVerification with 100 points; the second print gives version 2 and a
\* code C2; verifying C1 then gives Invalid; verifying C2 gives
\* MultipleVerification with 10 points.
C10_EndToEnd == [][EndToEndStep]_vars

\* The end of the scenario: three requests were made for a serial printed
\* twice; the first verification is recorded as FirstVerification at version
\* 1, the last answered MultipleVerification with 10 points for the second
\* code, and the user holds 110 points.
C10_Witness ==
    /\ calls = 3
    /\ last.op = "verify_product_v2"
    /\ last.status = "MultipleVerification"
    /\ last.points = 10
    /\ ScenarioSerial(last.product_id, last.serial_no)
    /\ StoredVersion(last.serial_no) = 2
    /\ Len(IssuedFor(last.product_id, last.serial_no)) = 2
    /\ last.unique_code = IssuedFor(last.product_id, last.serial_no)[2]
    /\ last.product_id \in DOMAIN verifications
    /\ Len(verifications[last.product_id]) = 2
    /\ verifications[last.product_id][1].status = "FirstVerification"
    /\ verifications[last.product_id][1].print_version = 1
    /\ verifications[last.product_id][1].serial_no = last.serial_no
    /\ user_rewards[last.caller].total_points = U32(110)

\* The step is a record_verification_attempt call; last' is its result.
AttemptStep == calls' = calls + 1 /\ last'.op = "record_verification_attempt"

\* The number of attempts a key has made in its current window: none when it
\* has no entry or its window has elapsed
AttemptsInWindow(key) ==
    IF key \notin DOMAIN rate_limits THEN 0
    ELSE IF now > rate_limits[key].window_start + 300 THEN 0
    ELSE rate_limits[key].attempts

\* The start of the window an attempt of the key falls in
WindowOfAttempt(key) ==
    IF key \notin DOMAIN rate_limits THEN now
    ELSE IF now > rate_limits[key].window_start + 300 THEN now
    ELSE rate_limits[key].window_start

AttemptSequenceStep ==
    LET key == <<last'.caller, last'.product_id>>
        n == AttemptsInWindow(key)
    IN AttemptStep =>
          IF n < 5
          THEN /\ last'.ok
               /\ last'.rate_limit_info.remaining_attempts = 4 - n
               /\ key \in DOMAIN rate_limits'
               /\ rate_limits'[key].attempts = n + 1
               /\ rate_limits'[key].window_start = WindowOfAttempt(key)
          ELSE /\ ~last'.ok
               /\ last'.status = "InvalidInput"

\* While the first window of the only key is open, every call so far was an
\* attempt of that key in that window: the stored count is the number of
\* calls up to five, and the last attempt was admitted iff it was one of the
\* first five, with 5 minus its rank remaining.
FirstWindowCount ==
    \A key \in DOMAIN rate_limits :
        (DOMAIN rate_limits = {key} /\ now <= rate_limits[key].window_start + 300
         /\ rate_limits[key].window_start = 0)
            => /\ rate_limits[key].attempts = (IF calls < 5 THEN calls ELSE 5)
               /\ (last.op = "record_verification_attempt" /\ now = rate_limits[key].last_attempt)
                      => /\ last.ok <=> calls <= 5
                         /\ last.ok => last.rate_limit_info.remaining_attempts = 5 - calls

\* C11: for a key with no entry, five record_verification_attempt calls inside
\* one window are admitted with remaining_attempts 4, 3, 2, 1, 0; the sixth
\* call in the same window returns the rate-limit error; the first call after
\* the window has elapsed is admitted and leaves the stored attempts at 1 with
\* window_start at the time of that call.
C11_AttemptSequence == [][AttemptSequenceStep]_vars /\ []FirstWindowCount

\* Seven attempts of one key: five admitted and a sixth rejected at time 0, the
\* seventh admitted right after the window, which restarts the count.
C11_Witness ==
    /\ calls = 7
    /\ now = 301
    /\ last.op = "record_verification_attempt"
    /\ last.ok
    /\ last.rate_limit_info.remaining_attempts = 4
    /\ DOMAIN rate_limits = {<<last.caller, last.product_id>>}
    /\ rate_limits[<<last.caller, last.product_id>>].attempts = 1
    /\ rate_limits[<<last.caller, last.product_id>>].window_start = 301

\* The step is a get_verification_rate_limit query; last' is its response.
CheckStep ==
    now' = now /\ calls' = calls /\ last'.op = "get_verification_rate_limit"

CheckReadOnlyStep ==
    LET key == <<last'.caller, last'.product_id>>
        info == last'.rate_limit_info
    IN CheckStep =>
          /\ rate_limits' = rate_limits
          /\ last'.ok
          /\ key \notin DOMAIN rate_limits
                => /\ key \notin DOMAIN rate_limits'
                   /\ info.remaining_attempts = 5
                   /\ info.current_window_start = now
          /\ (key \in DOMAIN rate_limits /\ now > rate_limits[key].window_start + 300)
                => /\ info.remaining_attempts = 5
                   /\ info.current_window_start = now
                   /\ info.reset_time = now + 300
                   /\ rate_limits'[key].attempts = rate_limits[key].attempts
                   /\ rate_limits'[key].window_start = rate_limits[key].window_start
          /\ (key \in DOMAIN rate_limits /\ now <= rate_limits[key].window_start + 300)
                => /\ info.remaining_attempts = 5 - rate_limits[key].attempts
                   /\ info.current_window_start = rate_limits[key].window_start

\* C12: check_rate_limit never changes the stored rate-limit map: for a key
\* whose window has expired it reports remaining_attempts 5 and
\* current_window_start = now while the stored entry keeps its attempts and
\* window_start; for a missing key it reports the same and creates no entry.
C12_CheckIsReadOnly == [][CheckReadOnlyStep]_vars

\* A query answered 5 remaining attempts in a window starting now for a key
\* whose stored entry still holds the five attempts of an expired window.
C12_Witness ==
    /\ last.op = "get_verification_rate_limit"
    /\ <<last.caller, last.product_id>> \in DOMAIN rate_limits
    /\ rate_limits[<<last.caller, last.product_id>>].attempts = 5
    /\ now > rate_limits[<<last.caller, last.product_id>>].window_start + 300
    /\ last.rate_limit_info.remaining_attempts = 5
    /\ last.rate_limit_info.current_window_start = now

RejectedAttemptStep ==
    LET key == <<last'.caller, last'.product_id>>
    IN (/\ AttemptStep
        /\ key \in DOMAIN rate_limits
        /\ rate_limits[key].attempts = 5
        /\ now <= rate_limits[key].window_start + 300)
           => /\ ~last'.ok
              /\ last'.status = "InvalidInput"
              /\ rate_limits' = rate_limits

AttemptsAtMostFive ==
    \A key \in DOMAIN rate_limits : rate_limits[key].attempts <= 5

\* C13: when the stored attempts of a key is 5 and its window has not expired,
\* record_verification_attempt returns the rate-limit error and leaves the
\* stored entry (attempts, window_start, last_attempt) unchanged; in every
\* reachable state the stored attempts of every entry is at most 5.
C13_RejectedAttemptNotCounted == [][RejectedAttemptStep]_vars /\ []AttemptsAtMostFive

\* An attempt was rejected at the last instant of a window that holds five
\* attempts, all made when the window started.
C13_Witness ==
    /\ last.op = "record_verification_attempt"
    /\ ~last.ok
    /\ calls = 6
    /\ <<last.caller, last.product_id>> \in DOMAIN rate_limits
    /\ rate_limits[<<last.caller, last.product_id>>].attempts = 5
    /\ rate_limits[<<last.caller, last.product_id>>].last_attempt = 0
    /\ now = 300

\* The step is a verify_product_v2 call that finds the caller rate limited
RateLimitedStep ==
    /\ VerifyStep
    /\ FindProductOfSerial(last'.serial_no) # NoId
    /\ ~NotRateLimited(last'.caller, last'.serial_no)

\* A verify_product_v2 response that reports malformed input
MalformedInputError(response) ==
    /\ response.op = "verify_product_v2"
    /\ ~response.ok
    /\ response.message \in {<<"Malformed unique code">>, <<"Invalid signature format">>}

DistinctRateLimitErrorStep ==
    LET key == <<last'.caller, FindProductOfSerial(last'.serial_no)>>
    IN RateLimitedStep
          => /\ ~last'.ok
             /\ MalformedInputError(last) => last'.status # last.status
             /\ last'.rate_limit_info.reset_time = rate_limits[key].window_start + 300

\* C14: the rate-limit-exceeded outcome of verify_product_v2 is a distinct
\* error kind: its variant differs from the variant of the error returned for
\* a malformed unique code or an invalid signature format, and it carries the
\* reset time as a field of the response.
C14_RateLimitErrorIsDistinct == [][DistinctRateLimitErrorStep]_vars

\* The step is a record_successful_verification call on its own.
SuccessStep ==
    now' = now /\ calls' = calls /\ last'.op = "record_successful_verification"

\* Verification records of the product made by the caller at or after time t;
\* the id of a record is generated from the time it is made
RecordsSince(caller, product_id, t) ==
    LET vs == Get(verifications, product_id, <<>>)
    IN {i \in 1..Len(vs) : vs[i].created_by = caller /\ vs[i].id >= t}

SuccessCountsStep ==
    /\ SuccessStep
          => LET key == <<last'.caller, last'.product_id>>
             IN /\ DOMAIN rate_limits' = DOMAIN rate_limits
                /\ \A k \in DOMAIN rate_limits :
                      /\ rate_limits'[k].attempts = rate_limits[k].attempts
                      /\ rate_limits'[k].window_start = rate_limits[k].window_start
                      /\ k # key => rate_limits'[k] = rate_limits[k]
                /\ key \in DOMAIN rate_limits => rate_limits'[key].last_attempt = now
    /\ \A p \in DOMAIN products :
          LET key == <<last'.caller, p>>
          IN (/\ VerifyStep
              /\ FindProductOfSerial(last'.serial_no) = p
              /\ key \in DOMAIN rate_limits
              /\ now <= rate_limits[key].window_start + 300
              /\ Cardinality(RecordsSince(last'.caller, p,
                                          rate_limits[key].window_start)) >= 5)
                 => /\ ~last'.ok
                    /\ last'.status = "InvalidInput"
                    /\ UNCHANGED <<verifications, user_rewards, verified_products,
                                   rate_limits>>

\* C15: record_successful_verification changes only last_attempt of an
\* existing entry (attempts and window_start unchanged, no entry created when
\* absent), so successful verifications count toward the limit: a
\* verify_product_v2 call by a caller who already has five successful
\* verifications of the product inside the window is rejected.
C15_SuccessCountsTowardLimit == [][SuccessCountsStep]_vars

\* The sixth verification request of a window was rejected after five that
\* succeeded with the valid code.
C15_Witness ==
    /\ calls = 6
    /\ last.op = "verify_product_v2"
    /\ ~last.ok
    /\ last.status = "InvalidInput"
    /\ SignatureMatches(last.serial_no, last.unique_code)
    /\ last.product_id \in DOMAIN verifications
    /\ Cardinality(RecordsSince(last.caller, last.product_id, now)) = 5

\* The step is a calculate_verification_rewards call; last' holds its
\* arguments and the VerificationRewards it returned.
RewardStep == calls' = calls + 1 /\ last'.op = "calculate_verification_rewards"

RewardPointsStep ==
    LET base == CASE last'.status = "FirstVerification" -> 100
                  [] last'.status = "MultipleVerification" -> 10
                  [] last'.status = "Invalid" -> 0
        promoted == last'.product_id \in promotions
        bonus == IF promoted THEN 50 ELSE 0
    IN RewardStep
          => /\ last'.points = base + bonus
             /\ last'.special_reward <=> promoted
             /\ last'.reward_description <=> promoted

\* C16: calculate_verification_rewards returns points = base(status) + bonus,
\* where base is 100 for FirstVerification, 10 for MultipleVerification and 0
\* for Invalid, and bonus is 50 if a promotion is stored for the product and 0
\* otherwise; special_reward and reward_description are present exactly when a
\* promotion exists.
C16_RewardPoints == [][RewardPointsStep]_vars

\* A first verification of a product with a promotion was paid 150 points.
C16_Witness ==
    /\ last.op = "calculate_verification_rewards"
    /\ last.status = "FirstVerification"
    /\ last.product_id \in promotions
    /\ last.points = 150
    /\ last.special_reward
    /\ last.reward_description

InvalidRewardStep ==
    (RewardStep /\ last'.status = "Invalid")
        => /\ verified_products' = verified_products
           /\ user_rewards' = user_rewards

\* C17: calculate_verification_rewards called with status Invalid has no side
\* effect: it changes neither the user's verified products nor the user's
\* UserRewards record, for every product, with or without a promotion.
C17_InvalidHasNoSideEffect == [][InvalidRewardStep]_vars

\* The n-th call was a reward calculation for the user and the product with a
\* status other than Invalid: on its own, or inside an accepted verification
\* or a successful redemption.
RewardedAt(user_id, product_id, n) ==
    /\ calls = n
    /\ last.caller = user_id
    /\ last.product_id = product_id
    /\ \/ last.op = "calculate_verification_rewards" /\ last.status # "Invalid"
       \/ last.op = "verify_product_v2" /\ Accepted(last)
       \/ last.op = "redeem_product_reward" /\ last.ok /\ last.status = "success"

\* A call after the n-th calculated rewards for the user and the product and
\* returned is_first_verification = true.
FirstAgainAfter(user_id, product_id, n) ==
    /\ calls > n
    /\ last.caller = user_id
    /\ last.product_id = product_id
    /\ \/ last.op = "calculate_verification_rewards"
       \/ last.op = "verify_product_v2" /\ Accepted(last)
    /\ last.is_first

VerifiedProductsGrowStep ==
    \A u \in DOMAIN verified_products :
        /\ u \in DOMAIN verified_products'
        /\ verified_products[u] \subseteq verified_products'[u]

\* C18: once calculate_verification_rewards has been called for a user and a
\* product with a status other than Invalid, every later call for the same
\* pair returns is_first_verification = false whatever status is passed, and
\* no verify, redeem or reward call removes a product from a user's verified
\* products.
C18_FirstOnlyOnce ==
    /\ \A u \in Customers, p \in RewardProducts, n \in 1..MaxCalls :
          [](RewardedAt(u, p, n) => [](~FirstAgainAfter(u, p, n)))
    /\ [][VerifiedProductsGrowStep]_vars

\* A later call for a pair already rewarded passed FirstVerification and was
\* told it is not the first.
C18_Witness ==
    /\ calls >= 2
    /\ last.op = "calculate_verification_rewards"
    /\ last.status = "FirstVerification"
    /\ ~last.is_first
    /\ last.caller \in DOMAIN verified_products
    /\ last.product_id \in verified_products[last.caller]

CountersStep ==
    \A u \in DOMAIN user_rewards :
        /\ u \in DOMAIN user_rewards'
        /\ U32Leq(user_rewards[u].total_points, user_rewards'[u].total_points)
        /\ U32Leq(user_rewards[u].verification_count, user_rewards'[u].verification_count)
        /\ U32Leq(user_rewards[u].first_verifications,
                  user_rewards'[u].first_verifications)

\* C19: for every user, total_points, verification_count and
\* first_verifications of UserRewards never decrease across any sequence of
\* verify_product_v2, redeem_product_reward and calculate_verification_rewards
\* calls.
C19_CountersNeverDecrease == [][CountersStep]_vars

\* The caller holds a FirstVerification record for the serial, made at the
\* stored print_version, whose reward is not claimed
HoldsUnclaimedFirst(caller, serial_no) ==
    LET p == FindProductOfSerial(serial_no)
        vs == Get(verifications, p, <<>>)
    IN \E i \in 1..Len(vs) :
          /\ vs[i].created_by = caller
          /\ vs[i].serial_no = serial_no
          /\ vs[i].print_version = StoredVersion(serial_no)
          /\ vs[i].status = "FirstVerification"
          /\ ~vs[i].reward_claimed

RedeemReverifiesStep ==
    (/\ RedeemStep
     /\ ~SignatureMatches(last'.serial_no, last'.unique_code))
        => /\ ~last'.ok
           /\ last'.status # "success"
           /\ last'.tx = NoTx
           /\ verifications' = verifications
           /\ user_rewards' = user_rewards
           /\ verified_products' = verified_products

\* C20: redeem_product_reward re-verifies the supplied code against the
\* stored print_version before anything else: when the unique_code is not the
\* signature of (product, serial, stored version) under the product's key, no
\* verification record is marked claimed, no reward is computed and success is
\* not returned, even when the caller holds an unclaimed FirstVerification
\* record for the serial.
C20_RedeemReverifies == [][RedeemReverifiesStep]_vars

\* A redemption with a code that is not the current signature failed while the
\* caller held an unclaimed FirstVerification record for the serial.
C20_Witness ==
    /\ last.op = "redeem_product_reward"
    /\ ~last.ok
    /\ last.unique_code.kind = "sig"
    /\ ~SignatureMatches(last.serial_no, last.unique_code)
    /\ HoldsUnclaimedFirst(last.caller, last.serial_no)

\* The verification records of the product the serial resolves to
RecordsOfSerial(serial_no) == Get(verifications, FindProductOfSerial(serial_no), <<>>)

\* The indexes of the records the caller made for the serial at the stored
\* print_version
MatchingRecords(caller, serial_no) ==
    {i \in 1..Len(RecordsOfSerial(serial_no)) :
        /\ RecordsOfSerial(serial_no)[i].created_by = caller
        /\ RecordsOfSerial(serial_no)[i].serial_no = serial_no
        /\ RecordsOfSerial(serial_no)[i].print_version = StoredVersion(serial_no)}

\* The record a redemption of the caller for the serial acts on: the first of
\* the matching records. Meaningful when there is one.
MatchedRecord(caller, serial_no) ==
    RecordsOfSerial(serial_no)[
        CHOOSE i \in MatchingRecords(caller, serial_no) :
            \A j \in MatchingRecords(caller, serial_no) : i <= j]

\* The step is a redemption with the current code of the serial by a caller
\* who has a matching record
RedeemOfRecordStep ==
    /\ RedeemStep
    /\ SignatureMatches(last'.serial_no, last'.unique_code)
    /\ MatchingRecords(last'.caller, last'.serial_no) # {}

RedeemTwiceStep ==
    /\ (/\ RedeemOfRecordStep
        /\ MatchedRecord(last'.caller, last'.serial_no).status = "FirstVerification"
        /\ ~MatchedRecord(last'.caller, last'.serial_no).reward_claimed)
           => /\ last'.ok
              /\ last'.status = "success"
              /\ last'.tx # NoTx
    /\ (/\ RedeemStep
        /\ last.op = "redeem_product_reward"
        /\ last.ok
        /\ last.status = "success"
        /\ last'.caller = last.caller
        /\ last'.serial_no = last.serial_no
        /\ last'.unique_code = last.unique_code)
           => /\ last'.ok
              /\ last'.status = "already_claimed"
              /\ last'.tx = last.tx
              /\ verifications' = verifications

\* C21: redeeming the same FirstVerification record twice with no reprint in
\* between returns success = true with a transaction id t on the first call
\* and success = false with the same transaction id t on the second call; the
\* second call leaves the verification records, reward_claimed and
\* reward_transaction_id included, unchanged.
C21_RedeemTwice == [][RedeemTwiceStep]_vars

\* The second of two redemptions of one record answered success = false with
\* the transaction id stored by the first.
C21_Witness ==
    /\ last.op = "redeem_product_reward"
    /\ last.ok
    /\ last.status = "already_claimed"
    /\ last.tx # NoTx
    /\ MatchingRecords(last.caller, last.serial_no) # {}
    /\ MatchedRecord(last.caller, last.serial_no).status = "FirstVerification"
    /\ MatchedRecord(last.caller, last.serial_no).reward_claimed
    /\ MatchedRecord(last.caller, last.serial_no).reward_transaction_id = last.tx

RedeemIneligibleStep ==
    (/\ RedeemOfRecordStep
     /\ MatchedRecord(last'.caller, last'.serial_no).status # "FirstVerification"
     /\ ~MatchedRecord(last'.caller, last'.serial_no).reward_claimed)
        => /\ last'.ok
           /\ last'.status = "not_first"
           /\ last'.tx = NoTx
           /\ verifications' = verifications
           /\ user_rewards' = user_rewards
           /\ verified_products' = verified_products

\* C22: when the verification record matched by redeem_product_reward has a
\* status other than FirstVerification and is unclaimed, the call returns a
\* successful response with success = false and no transaction id, and leaves
\* the record, the user's UserRewards and the verified products unchanged.
C22_RedeemIneligible == [][RedeemIneligibleStep]_vars

\* A redemption was refused for a MultipleVerification record made after a
\* reprint, while the caller's FirstVerification record of the earlier
\* version is unclaimed.
C22_Witness ==
    /\ last.op = "redeem_product_reward"
    /\ last.ok
    /\ last.status = "not_first"
    /\ MatchingRecords(last.caller, last.serial_no) # {}
    /\ MatchedRecord(last.caller, last.serial_no).status = "MultipleVerification"
    /\ \E i \in 1..Len(RecordsOfSerial(last.serial_no)) :
           /\ RecordsOfSerial(last.serial_no)[i].status = "FirstVerification"
           /\ ~RecordsOfSerial(last.serial_no)[i].reward_claimed

RedeemLedgerStep ==
    (/\ RedeemOfRecordStep
     /\ MatchedRecord(last'.caller, last'.serial_no).status = "FirstVerification"
     /\ ~MatchedRecord(last'.caller, last'.serial_no).reward_claimed
     /\ last'.caller \in DOMAIN user_rewards)
        => /\ last'.caller \in DOMAIN user_rewards'
           /\ user_rewards'[last'.caller].total_points
                  = user_rewards[last'.caller].total_points
           /\ user_rewards'[last'.caller].verification_count
                  = user_rewards[last'.caller].verification_count

\* C23: the reward recomputation inside redeem_product_reward is idempotent
\* with respect to the ledger: the points of a FirstVerification were added
\* to the user's total_points by the verify call, and the redeem call of that
\* verification changes neither total_points nor verification_count.
C23_RedeemLedgerIdempotent == [][RedeemLedgerStep]_vars

\* The record new holds what the stored record old held, but for a claim mark
\* it gained
SameRecordButClaim(old, new) ==
    /\ new.id = old.id
    /\ new.product_id = old.product_id
    /\ new.serial_no = old.serial_no
    /\ new.print_version = old.print_version
    /\ new.created_by = old.created_by
    /\ new.status = old.status
    /\ old.reward_claimed => new.reward_claimed
    /\ old.reward_transaction_id # NoTx
          => new.reward_transaction_id = old.reward_transaction_id

RecordsAppendOnlyStep ==
    /\ \A p \in (DOMAIN verifications) \cap (DOMAIN verifications') :
          \A i \in 1..Len(verifications[p]) :
              i <= Len(verifications'[p])
                  => SameRecordButClaim(verifications[p][i], verifications'[p][i])
    /\ (VerifyStep \/ RedeemStep)
          => \A p \in DOMAIN verifications :
                 /\ p \in DOMAIN verifications'
                 /\ Len(verifications'[p]) >= Len(verifications[p])

\* C24: for every stored ProductVerification, reward_claimed never goes from
\* true to false, reward_transaction_id never changes once it is set, every
\* other field never changes after the record is appended, and verify and
\* redeem neither remove nor reorder the records of a product's list.
C24_RecordsAppendOnly == [][RecordsAppendOnlyStep]_vars

\* A verification was appended behind a record whose reward is claimed.
C24_Witness ==
    /\ last.op = "verify_product_v2"
    /\ last.product_id \in DOMAIN verifications
    /\ Len(verifications[last.product_id]) = 2
    /\ verifications[last.product_id][1].reward_claimed
    /\ verifications[last.product_id][1].reward_transaction_id # NoTx
    /\ ~verifications[last.product_id][2].reward_claimed

\* The step is a verify_reseller_v2 query; last' is its request and response.
VerifyResellerStep == now' = now /\ last'.op = "verify_reseller_v2"

\* The code generate_reseller_unique_code_v2 returns for the reseller at time
\* t with the context
GeneratedResellerCode(reseller_id, t, context) ==
    [kind |-> "sig", k |-> organizations[resellers[reseller_id].org_id].private_key,
     m |-> <<reseller_id, t, context>>]

\* A span d of api::time, which counts nanoseconds, is at most that many seconds
AtMostSeconds(d, seconds) ==
    \/ d \div NANOS_PER_SECOND < seconds
    \/ d \div NANOS_PER_SECOND = seconds /\ d % NANOS_PER_SECOND = 0

ResellerCodeStep ==
    \A X \in Contexts :
        (/\ VerifyResellerStep
         /\ last'.reseller_id \in DOMAIN resellers
         /\ resellers[last'.reseller_id].org_id \in DOMAIN organizations
         /\ last'.timestamp # NoTimestamp
         /\ last'.timestamp <= now
         /\ last'.unique_code
                = GeneratedResellerCode(last'.reseller_id, last'.timestamp, X))
            => /\ (last'.context = X /\ AtMostSeconds(now - last'.timestamp, 299))
                     => last'.status = "Success"
               /\ (now - last'.timestamp) \div NANOS_PER_SECOND >= 301
                     => last'.status = "ExpiredCode"
               /\ (last'.context # X /\ AtMostSeconds(now - last'.timestamp, 299))
                     => last'.status = "InvalidCode"

\* C25: for an existing reseller whose organization exists, a code generated
\* by generate_reseller_unique_code_v2 at time T with context X and presented
\* to verify_reseller_v2 with timestamp T yields Success at every time up to
\* T + 299 seconds with context X, ExpiredCode from T + 301 seconds on, and
\* InvalidCode when the context presented is another value.
C25_ResellerCodeLifetime == [][ResellerCodeStep]_vars

ResellerLookupStep ==
    VerifyResellerStep
        => /\ last'.reseller_id \notin DOMAIN resellers
                 => last'.status = "ResellerNotFound"
           /\ (/\ last'.reseller_id \in DOMAIN resellers
               /\ resellers[last'.reseller_id].org_id \notin DOMAIN organizations)
                 => last'.status = "OrganizationNotFound"

\* C26: verify_reseller_v2 returns ResellerNotFound whenever the reseller id
\* is not stored, and OrganizationNotFound whenever the reseller is stored but
\* its organization is not, whatever timestamp and unique_code the request
\* carries.
C26_ResellerLookupFirst == [][ResellerLookupStep]_vars

\* The step is a get_organization_private_key query; last' is its response.
PrivateKeyStep == now' = now /\ last'.op = "get_organization_private_key"

PrivateKeyStaysStep ==
    (PrivateKeyStep /\ last'.caller \in Applicants /\ last'.ok)
        => last'.private_key # OwnerKey

\* C27: an organization's private key is never returned to a non-privileged
\* caller: whatever calls of register, update_self_details, set_self_role,
\* initialize_user_session and register_as_* a principal makes, with no grant
\* from an admin or from a member of the organization,
\* get_organization_private_key never returns to it the key of an
\* organization it did not create.
C27_PrivateKeyStays == [][PrivateKeyStaysStep]_vars

\* The i-th suspended review call completes: its OpenAI outcall returned a
\* sentiment and the review is stored.
ReviewStoredStep(i) ==
    /\ i \in DOMAIN reviews
    /\ reviews[i].stage = "analyze"
    /\ reviews[i].waiting = "http"
    /\ reviews' = WithoutCall(reviews, i)
    /\ last'.op = "generate_product_review_v2"
    /\ last'.status = "ok"

\* The record with the two review entries added and nothing else changed.
WithReviewAdded(product, time) ==
    [product EXCEPT !.metadata =
        Append(Append(@, [key |-> "product_review", value |-> ReviewContent]),
               [key |-> "latest_product_review_generation", value |-> time])]

\* C28: when a review call completes after its suspension, the product it
\* stores is the record as it is at that moment (with every write made to it
\* during the suspension) plus the product_review and
\* latest_product_review_generation entries.
C28_ReviewKeepsConcurrentWrites ==
    [][\A i \in DOMAIN reviews :
          ReviewStoredStep(i) =>
              LET id == reviews[i].product_id
              IN /\ id \in DOMAIN products
                 /\ products'[id] = WithReviewAdded(products[id], now)]_vars

\* The places of the stored serial records: <<product id, index in its list>>.
SerialPlaces ==
    UNION {{<<p, i>> : i \in 1..Len(serial_numbers[p])} : p \in DOMAIN serial_numbers}

\* C29: no two stored serial records share a serial_no, neither inside one
\* product's list nor across products, whatever the times of the
\* create_product and create_product_serial_number calls.
C29_SerialNosUnique ==
    \A a, b \in SerialPlaces :
        a # b => serial_numbers[a[1]][a[2]].serial_no # serial_numbers[b[1]][b[2]].serial_no

\* The places of the stored verification records.
VerificationPlaces ==
    UNION {{<<p, i>> : i \in 1..Len(verifications[p])} : p \in DOMAIN verifications}

\* A creation never replaces a stored organization or product.
NoOverwriteStep ==
    /\ (last'.op = "register_as_organization" /\ last'.ok) =>
           \A id \in DOMAIN organizations :
               id \in DOMAIN organizations' /\ organizations'[id] = organizations[id]
    /\ (last'.op = "create_product" /\ last'.ok) =>
           \A id \in DOMAIN products :
               id \in DOMAIN products' /\ products'[id] = products[id]

\* C30: generated identifiers are unique: a creation never overwrites an
\* existing organization or product, create_product gives the product and
\* its initial serial different ids, and no two verification records share
\* an id.
C30_IdentifiersUnique ==
    [][/\ NoOverwriteStep
       /\ (last'.op = "create_product" /\ last'.ok) =>
              last'.product_id # last'.serial_no
       /\ \A a, b \in VerificationPlaces :
              a # b => verifications[a[1]][a[2]].id # verifications[b[1]][b[2]].id]_vars

\* A redeem_product_reward call that reaches public_key.verify: the serial is
\* stored, its product exists and the code decodes to a signature.
RedeemChecksCodeStep ==
    /\ last'.op = "redeem_product_reward"
    /\ calls' = calls + 1
    /\ FindProductOfSerial(last'.serial_no) \in DOMAIN products
    /\ DecodeCode(last'.unique_code) = "signature"

\* C31: for one caller and one product, at most MAX_ATTEMPTS_PER_WINDOW
\* candidate codes are checked against the product's public key inside one
\* rate-limit window, over verify_product_v2 and redeem_product_reward
\* together. Under SpecBrute every counted call is such a check by the same
\* caller for the same product at a time inside the window starting at 0, so
\* calls is the number of codes checked in that window.
C31_BruteForceBound ==
    [][(RedeemChecksCodeStep /\ now <= WINDOW_DURATION_SECONDS) =>
           calls' <= MAX_ATTEMPTS_PER_WINDOW]_vars

\* The step is a record_verification_attempt call for a key whose stored
\* entry holds MAX_ATTEMPTS_PER_WINDOW attempts of a window that started less
\* than WINDOW_DURATION_SECONDS seconds of canister time ago.
AttemptInFullWindowStep ==
    LET key == <<last'.caller, last'.product_id>>
    IN /\ last'.op = "record_verification_attempt"
       /\ calls' = calls + 1
       /\ key \in DOMAIN rate_limits
       /\ rate_limits[key].attempts >= MAX_ATTEMPTS_PER_WINDOW
       /\ now >= rate_limits[key].window_start
       /\ (now - rate_limits[key].window_start) \div NANOS_PER_SECOND
              < WINDOW_DURATION_SECONDS

\* C32: the rate-limit window lasts 300 seconds of canister time, api::time
\* being in nanoseconds: a key that reached its 5 attempts in a window that
\* started at t is rejected by record_verification_attempt at every time
\* before t + 300 s.
C32_WindowLastsSeconds == [][AttemptInFullWindowStep => ~last'.ok]_vars

\* The i-th suspended call schedules a retry in this step.
RetryScheduledStep(i) ==
    /\ i \in DOMAIN reviews
    /\ i \in DOMAIN reviews'
    /\ reviews[i].waiting = "http"
    /\ reviews'[i].waiting = "timer"

\* A retry follows a rejection or a 5xx status only, and waits 2 * k seconds
\* before retry k.
RetryOnlyWhenTransientStep ==
    \A i \in DOMAIN reviews :
        RetryScheduledStep(i) =>
            /\ \/ reviews'[i].response.kind = "rejected"
               \/ /\ reviews'[i].response.kind = "response"
                  /\ reviews'[i].response.status >= 500
                  /\ reviews'[i].response.status <= 599
            /\ reviews'[i].delay = 2 * reviews'[i].attempts

\* A call that ends in this step returns Ok or ExternalApiError.
ReviewReturnsStep ==
    Len(reviews') < Len(reviews) => last'.status \in {"ok", "ExternalApiError"}

\* C33: scrape_product_review and analyze_sentiment_with_openai issue at most
\* 3 HTTP requests per call and then return Ok or ExternalApiError; a retry
\* happens only after a transport rejection or a 5xx status, never after a
\* 2xx or 4xx response, with a delay of 2 * k seconds before retry k; and
\* generate_product_review_v2 terminates when every outcall and timer
\* completes.
C33_BoundedRetries ==
    /\ [][RetryOnlyWhenTransientStep /\ ReviewReturnsStep]_vars
    /\ [](\A i \in DOMAIN reviews : reviews[i].attempts <= 3)
    /\ (reviews # <<>>) ~> (reviews = <<>>)

\* The step is a verify_product_v2 call that ended in an error or in status
\* Invalid; last' holds the request and the response.
VerifyFailedStep ==
    /\ last'.op = "verify_product_v2"
    /\ calls' = calls + 1
    /\ ~last'.ok \/ last'.status = "Invalid"

\* The failed call was for an unknown serial or was rejected by the rate
\* limiter.
VerifyRejectedEarly ==
    \/ FindProductOfSerial(last'.serial_no) = NoId
    \/ ~record_verification_attempt(rate_limits, last'.caller,
                                    FindProductOfSerial(last'.serial_no)).admitted

VerifyFailureFrameStep ==
    LET key == <<last'.caller, FindProductOfSerial(last'.serial_no)>>
    IN VerifyFailedStep =>
          /\ verifications' = verifications
          /\ user_rewards' = user_rewards
          /\ verified_products' = verified_products
          /\ UNCHANGED <<users, organizations, products, serial_numbers, promotions,
                         resellers, reviews>>
          /\ DOMAIN rate_limits' \subseteq (DOMAIN rate_limits) \cup {key}
          /\ \A k \in DOMAIN rate_limits :
                 k # key => k \in DOMAIN rate_limits' /\ rate_limits'[k] = rate_limits[k]
          /\ VerifyRejectedEarly => rate_limits' = rate_limits

\* C34: a verify_product_v2 call that ends in an error or in status Invalid
\* appends no verification and leaves every UserRewards record and every
\* verified-products set unchanged; it may change only the caller's
\* rate-limit entry for that product, and nothing at all for an unknown
\* serial or a rate-limited call.
C34_VerifyFailureFrame == [][VerifyFailureFrameStep]_vars

\* A request with a wrong code was answered Invalid in a window in which the
\* caller had been rate limited before: earlier in the window five requests
\* were counted and a sixth rejected without being counted.
C34_Witness ==
    /\ last.op = "verify_product_v2"
    /\ last.status = "Invalid"
    /\ calls = 7
    /\ <<last.caller, last.product_id>> \in DOMAIN rate_limits
    /\ rate_limits[<<last.caller, last.product_id>>].attempts = 1
    /\ rate_limits[<<last.caller, last.product_id>>].window_start > 0
    /\ verifications = EmptyMap

\* The indexes of the stored records of the product that the user created
\* with status FirstVerification.
FirstRecords(user_id, product_id) ==
    {i \in 1..Len(verifications[product_id]) :
        /\ verifications[product_id][i].created_by = user_id
        /\ verifications[product_id][i].status = "FirstVerification"}

AtMostOneFirstRecord ==
    \A product_id \in DOMAIN verifications :
        \A i \in 1..Len(verifications[product_id]) :
            Cardinality(FirstRecords(verifications[product_id][i].created_by,
                                     product_id)) <= 1

\* A redeem_product_reward call returns success = true only while no record
\* of the caller for that product is claimed yet.
RedeemSuccessOnceStep ==
    (/\ last'.op = "redeem_product_reward"
     /\ calls' = calls + 1
     /\ last'.status = "success")
        => /\ last'.product_id \in DOMAIN verifications
           /\ \A i \in 1..Len(verifications[last'.product_id]) :
                  verifications[last'.product_id][i].created_by = last'.caller
                      => ~verifications[last'.product_id][i].reward_claimed

\* C35: for every user and product at most one stored verification created
\* by that user for that product has status FirstVerification, whatever the
\* order of the verify_product_v2 calls; and a redeem_product_reward of that
\* user for that product returns success = true at most once.
C35_OneFirstVerification == []AtMostOneFirstRecord /\ [][RedeemSuccessOnceStep]_vars

\* Two callers verified the same product in turn, one of them twice: each has
\* one FirstVerification record, and the repeated verification is a
\* MultipleVerification.
C35_Witness ==
    /\ last.op = "verify_product_v2"
    /\ last.status = "MultipleVerification"
    /\ last.product_id \in DOMAIN verifications
    /\ Len(verifications[last.product_id]) = 3
    /\ \A c \in Callers : Cardinality(FirstRecords(c, last.product_id)) = 1

\* The step is a redemption that returns success
RedeemSucceedsStep ==
    /\ RedeemStep
    /\ last'.ok
    /\ last'.status = "success"

\* The records of the serial of the call that the step marks claimed
NewlyClaimed ==
    LET p == FindProductOfSerial(last'.serial_no)
    IN {i \in 1..Len(Get(verifications, p, <<>>)) :
           /\ ~verifications[p][i].reward_claimed
           /\ p \in DOMAIN verifications'
           /\ i <= Len(verifications'[p])
           /\ verifications'[p][i].reward_claimed}

RedeemSuccessOnlyIfStep ==
    /\ RedeemSucceedsStep =>
           /\ SignatureMatches(last'.serial_no, last'.unique_code)
           /\ MatchingRecords(last'.caller, last'.serial_no) # {}
           /\ MatchedRecord(last'.caller, last'.serial_no).status = "FirstVerification"
           /\ ~MatchedRecord(last'.caller, last'.serial_no).reward_claimed
    /\ RedeemStep =>
           \A i \in NewlyClaimed :
               /\ RecordsOfSerial(last'.serial_no)[i].created_by = last'.caller
               /\ RecordsOfSerial(last'.serial_no)[i].serial_no = last'.serial_no
               /\ RecordsOfSerial(last'.serial_no)[i].status = "FirstVerification"
               /\ RecordsOfSerial(last'.serial_no)[i].print_version
                      = StoredVersion(last'.serial_no)

\* C36: redeem_product_reward returns success only if the caller has a stored
\* verification record for the serial with status FirstVerification,
\* reward_claimed false and the print_version the serial has now, and the code
\* is the signature for that version; a record a redemption marks claimed is
\* such a record, so a FirstVerification record made before a reprint is never
\* redeemed after it.
C36_RedeemSuccessOnlyIf == [][RedeemSuccessOnlyIfStep]_vars

\* A redemption with the current code was refused after a reprint, while the
\* caller's only record for the serial is an unclaimed FirstVerification of
\* the earlier version.
C36_Witness ==
    /\ last.op = "redeem_product_reward"
    /\ ~(last.ok /\ last.status = "success")
    /\ SignatureMatches(last.serial_no, last.unique_code)
    /\ MatchingRecords(last.caller, last.serial_no) = {}
    /\ \E i \in 1..Len(RecordsOfSerial(last.serial_no)) :
           /\ RecordsOfSerial(last.serial_no)[i].created_by = last.caller
           /\ RecordsOfSerial(last.serial_no)[i].serial_no = last.serial_no
           /\ RecordsOfSerial(last.serial_no)[i].status = "FirstVerification"
           /\ ~RecordsOfSerial(last.serial_no)[i].reward_claimed
           /\ RecordsOfSerial(last.serial_no)[i].print_version
                  < StoredVersion(last.serial_no)

\* The request of the step is the one verify_reseller_v2 answered last
SameResellerRequestStep ==
    /\ last.op = "verify_reseller_v2"
    /\ last'.reseller_id = last.reseller_id
    /\ last'.unique_code = last.unique_code
    /\ last'.timestamp = last.timestamp
    /\ last'.context = last.context

\* The time is inside the validity window of the timestamp: not past its
\* expiration and not more than the skew before it
InValidityWindow(timestamp) ==
    /\ now <= timestamp + UNIQUE_CODE_EXPIRATION_SECONDS
    /\ timestamp <= now + 60

ResellerStatelessStep ==
    VerifyResellerStep
        => /\ UNCHANGED <<users, organizations, products, serial_numbers,
                          verifications, rate_limits, user_rewards,
                          verified_products, promotions, resellers, reviews,
                          entropy>>
           /\ last'.status # "ReplayAttackDetected"
           \* a timestamp of at most 60 was ahead of no earlier time by more
           \* than the skew, so the earlier presentation was inside the window
           /\ (/\ SameResellerRequestStep
               /\ InValidityWindow(last'.timestamp)
               /\ last'.timestamp <= 60)
                 => last'.status = last.status

StoredVerifications ==
    {verifications[p][i] : <<p, i>> \in VerificationPlaces}

\* C38: every stored ProductVerification has status FirstVerification or
\* MultipleVerification, and one with reward_claimed = true has status
\* FirstVerification and a reward_transaction_id.
C38_StoredVerificationShape ==
    \A v \in StoredVerifications :
        /\ v.status \in {"FirstVerification", "MultipleVerification"}
        /\ v.reward_claimed
              => /\ v.status = "FirstVerification"
                 /\ v.reward_transaction_id # NoTx

\* A FirstVerification record is claimed while a MultipleVerification record is
\* stored next to it.
C38_Witness ==
    /\ \E v \in StoredVerifications : v.reward_claimed
    /\ \E v \in StoredVerifications : v.status = "MultipleVerification"
    /\ last.op = "redeem_product_reward"

\* UserRewards.first_verifications of the user, 0 without an entry
FirstVerificationsOf(user_id) ==
    IF user_id \in DOMAIN user_rewards
    THEN user_rewards[user_id].first_verifications
    ELSE U32(0)

\* C39: for every user, UserRewards.first_verifications is the number of
\* products in the user's verified-products set, whatever verify_product_v2 and
\* redeem_product_reward calls were made and whatever promotions were added or
\* removed between them.
C39_FirstVerificationsCount ==
    \A u \in Callers :
        FirstVerificationsOf(u) = U32(Cardinality(Get(verified_products, u, {})))

\* A caller who verified two products redeemed a reward while a promotion was
\* on: three rewarded calls, two of them first verifications.
C39_Witness ==
    /\ last.op = "redeem_product_reward"
    /\ last.ok
    /\ last.status = "success"
    /\ promotions # {}
    /\ Cardinality(Get(verified_products, last.caller, {})) = 2
    /\ user_rewards[last.caller].verification_count = U32(3)

\* What each stable collection holds
Collections ==
    [ORGANIZATIONS |-> organizations,
     PRODUCTS |-> products,
     USERS |-> users,
     RESELLERS |-> resellers,
     PRODUCT_SERIAL_NUMBERS |-> serial_numbers,
     PRODUCT_VERIFICATIONS |-> verifications,
     RATE_LIMITS |-> rate_limits,
     USER_REWARDS |-> user_rewards,
     USER_VERIFIED_PRODUCTS |-> verified_products,
     PROMOTIONS |-> promotions]

\* What the virtual memory with the id holds: the collections that live in it
MemoryContents(id) ==
    [c \in {c \in DOMAIN MemoryIdOf : MemoryIdOf[c] = id} |-> Collections[c]]

MemoryIdsDistinct ==
    \A a, b \in DOMAIN MemoryIdOf : a # b => MemoryIdOf[a] # MemoryIdOf[b]

RateLimitWriteStep ==
    rate_limits' # rate_limits
        => MemoryContents(PRODUCT_VERIFICATIONS_ID)' = MemoryContents(PRODUCT_VERIFICATIONS_ID)

\* C40: the MemoryIds of the stable collections (organizations, products,
\* users, resellers, serial numbers, verifications, rate limits, user rewards,
\* verified products, promotions) are pairwise distinct, and a write to the
\* rate-limit map leaves the memory of the product-verifications map as it was.
C40_OwnMemoryIds == []MemoryIdsDistinct /\ [][RateLimitWriteStep]_vars

====
